---- MODULE Spec2Model ----
\* Verification model of pico-clock: the time-source arbiter (lib/time_source.py),
\* the RTC back-ends (lib/internal_rtc.py, lib/external_rtc.py, lib/ds3231/ds3231.py)
\* and the wireless link manager / network time client (lib/networking.py).
EXTENDS Integers, Sequences, FiniteSets, TLC

VARIABLES
    \* ---- TimeSource (arbiter) and the two RTC devices
    constructed,                \* TimeSource.__init__ has completed
    time_sync_status,           \* TimeSource.time_sync_status: list of TimeSyncStatus
    external_rtc_RTC,           \* ExternalRTC.RTC: "None" or "DS3231"
    time_source,                \* TimeSource.time_source: "rtc" or "external_rtc"
    selected_time_source_name,  \* TimeSource.selected_time_source_name
    on_time_sync,               \* WirelessNetwork.on_time_sync: "None", "on_ntp_sync", or
                                \* "raises" (a callable that raises when called)
    mcu_rtc,                    \* machine.RTC().datetime(): 8-tuple
    ds3231_regs,                \* DS3231 registers 0x00..0x06
    op,                         \* name of the last completed arbiter operation
    op_arg,                     \* its argument
    op_trace,                   \* device accesses and re-evaluations it made, in order
    op_result,                  \* what it returned, or "raise"
    \* ---- WirelessNetwork: radio, server pool and sync state
    wlan_status,                \* wlan.status(): a CYW43_LINK_* code
    wlan_ifconfig,              \* wlan.ifconfig(): its ip and dns fields
    ntp_servers,                \* WirelessNetwork.ntp_servers
    ntp_server_index,           \* WirelessNetwork.ntp_server_index (0-based)
    ntp_address,                \* WirelessNetwork.ntp_address: <<>> (None) or <<host, port>>
    ntp_sync_in_progress,       \* re-entrancy guard of async_sync_rtc_from_ntp
    ntp_sync_status,            \* WirelessNetwork.ntp_sync_status
    prtc_sync_status,           \* WirelessNetwork.prtc_sync_status
    ntp_last_synced_timestamp,  \* WirelessNetwork.ntp_last_synced_timestamp
    network_check_in_progress,  \* re-entrancy guard of check_network_access
    check_tasks,                \* check_network_access tasks created and not yet started
    sync_pc,                    \* the sync task: "idle", or "wait" for a response
    sync_pass,                  \* 1: allow_dns_refresh_retry is True, 2: the retry pass
    sync_attempt,               \* loop variable attempt of the server it waits for
    sync_log,                   \* sends, passes and DNS refreshes of the current sync
    sync_result,                \* what the last sync attempt returned
    sticky,                     \* index of the last winning server, -1 after a DNS refresh
    \* ---- WirelessNetwork: the running check_network_access task
    check_pc,                   \* "idle", or the await it is suspended in
    check_ticks,                \* polls made by the wait it is suspended in
    retries,                    \* local variable retries of check_network_access
    check_log,                  \* what the current check has done, in order
    check_result,               \* outcome of the last check: "True", "False", "ValueError"
    badauth_ended,              \* a connection attempt has ended in BadAuth
    assoc_after_badauth,        \* wlan.connect() was called after that
    skip_result,                \* what a check_network_access call that found the guard set
                                \* returned; "none" before the first such call
    \* ---- what the last sync attempt that obtained a time did with it
    sync_decoded,               \* the tuple gmtime() returned, <<>> before the first
    sync_callback,              \* the callback registered then, the arguments of its calls
                                \* and whether it raised
    \* ---- WirelessNetwork: resync scheduling
    config_NTP_SYNC_INTERVAL_SECONDS,  \* config.NTP_SYNC_INTERVAL_SECONDS
    NTP_SYNC_INTERVAL_SECONDS,  \* WirelessNetwork.NTP_SYNC_INTERVAL_SECONDS
    due_call,                   \* the last check_ntp_sync_needed call: the clock reading,
                                \* the last-synced timestamp it saw and what it returned
    \* ---- ClockCore and the shared bus
    running,                    \* ClockCore.running
    tests_running,              \* ClockCore.tests_running: list of test names
    last_time,                  \* ClockCore.last_time: <<>> (None) or a time tuple
    i2c_lock,                   \* ClockCore.i2c_lock: "free" or who holds it
    loop_pc,                    \* per refresh-loop thread: where it is in _clock_loop
    loop_now,                   \* per thread: local now_time, <<>> before the first read
    loop_paused,                \* per thread: it slept in the pause since its last time read
    loop_raised,                \* per thread: the step that raised since its last completed
                                \* time read, or "none"
    loop_slot,                  \* per thread: index in updates of the display written next
    display_test,               \* "idle", or "draw" while a display test writes to the bus
    core_ticks,                 \* clock steps made by the RTC hardware
    last_act,                   \* the last time read or bus transaction: who made it and
                                \* what held at that moment
    tick_writes,                \* bus writes by users of the lock during the display update
                                \* a loop thread is in, <<>> outside one
    \* ---- TimeSource used from both cores
    get_pc,                     \* get_time on the refresh-loop core: "idle" or its next step
    get_sel,                    \* the (source_name, source) its update_time_source chose
    chk_pc,                     \* async_check_time_sync_status: "idle" or its next step
    chk_sel,                    \* the (source_name, source) its update_time_source chose
    get_seen,                   \* the source object the last read of get_time called
    \* ---- WirelessNetwork: the response wait of the sync task
    sync_ticks,                 \* polls made by the response wait it is suspended in
    \* ---- WirelessNetwork.network_monitor
    sync_tasks,                 \* async_sync_rtc_from_ntp tasks created and not yet started
    monitor_polls,              \* iterations of network_monitor made, modulo 2
    \* ---- ClockCore.start
    start_result                \* how the last start() ended: "none" before the first and
                                \* after stop(), "ignored", "started", or "raised"

arbVars == <<constructed, time_sync_status, external_rtc_RTC, time_source,
             selected_time_source_name, on_time_sync, mcu_rtc, ds3231_regs,
             op, op_arg, op_trace, op_result>>

netVars == <<wlan_status, wlan_ifconfig, ntp_servers, ntp_server_index, ntp_address,
             ntp_sync_in_progress, ntp_sync_status, prtc_sync_status,
             ntp_last_synced_timestamp, network_check_in_progress, check_tasks,
             sync_pc, sync_pass, sync_attempt, sync_log, sync_result, sticky>>

wifiVars == <<check_pc, check_ticks, retries, check_log, check_result, badauth_ended,
              assoc_after_badauth, skip_result>>

syncObs == <<sync_decoded, sync_callback>>

dueVars == <<config_NTP_SYNC_INTERVAL_SECONDS, NTP_SYNC_INTERVAL_SECONDS, due_call>>

coreVars == <<running, tests_running, last_time, i2c_lock, loop_pc, loop_now,
              loop_paused, loop_raised, loop_slot, display_test, core_ticks, last_act, tick_writes>>

\* The groups the arbiter, the time client and the link manager leave alone.
raceVars == <<get_pc, get_sel, chk_pc, chk_sel, get_seen>>

waitVars == <<sync_ticks>>

monVars == <<sync_tasks, monitor_polls>>

startVars == <<start_result>>

otherVars == <<dueVars, coreVars, raceVars, waitVars, monVars, startVars>>

vars == <<arbVars, netVars, wifiVars, syncObs, dueVars, coreVars, raceVars, waitVars, monVars, startVars>>

\* ------------------------------------------------------------------ values

\* Civil times (year, month, day, hour, minute, second) used as inputs.
CivilTimes == { <<2024, 1, 12, 21, 22, 23>>,
                <<2025, 3, 9, 1, 59, 59>>,
                <<2025, 3, 9, 3, 0, 0>> }

SourceNames == <<"GPS", "NTP", "RTC", "PRTC">>

\* TimeSyncStatus(name, status)
TimeSyncStatus(name, status) == [name |-> name, status |-> status]

\* The power-on content of machine.RTC on the rp2 port: 2021-01-01 00:00:00, a Friday.
McuRtcAtBoot == <<2021, 1, 1, 4, 0, 0, 0, 0>>

\* ------------------------------------------------------------------ DS3231 codec

\* DS3231.bcd_to_decimal: (bcd >> 4) * 10 + (bcd & 0x0F)
bcd_to_decimal(bcd) == (bcd \div 16) * 10 + (bcd % 16)

\* DS3231.decimal_to_bcd: ((decimal // 10) << 4) | (decimal % 10); the low nibble of
\* the shifted term is zero and decimal % 10 < 16, so the bitwise or is a sum.
decimal_to_bcd(decimal) == ((decimal \div 10) * 16) + (decimal % 10)

\* DS3231.set_time: the 7 bytes written to registers 0x00..0x06.
DS3231_set_time(year, month, day, hours, minutes, seconds) ==
    << decimal_to_bcd(seconds), decimal_to_bcd(minutes), decimal_to_bcd(hours),
       decimal_to_bcd(0), decimal_to_bcd(day), decimal_to_bcd(month),
       decimal_to_bcd(year - 2000) >>

\* Variant of read_time that masks the hours register with 0x1F, the mask of the
\* 12-hour format.
DS3231_read_time_hours_12h(data) ==
    << bcd_to_decimal(data[7]) + 2000,
       bcd_to_decimal(data[6] % 32),
       bcd_to_decimal(data[5] % 64),
       bcd_to_decimal(data[3] % 32),
       bcd_to_decimal(data[2] % 128),
       bcd_to_decimal(data[1] % 128) >>

\* DS3231.read_time: decode registers 0x00..0x06 (masks 0x7F, 0x7F, 0x3F, 0x3F, 0x1F).
DS3231_read_time(data) ==
    << bcd_to_decimal(data[7]) + 2000,
       bcd_to_decimal(data[6] % 32),
       bcd_to_decimal(data[5] % 64),
       bcd_to_decimal(data[3] % 64),
       bcd_to_decimal(data[2] % 128),
       bcd_to_decimal(data[1] % 128) >>

\* ------------------------------------------------------------------ RTC back-ends

Ok(v) == [ok |-> TRUE, val |-> v]
Raise == [ok |-> FALSE, val |-> "raise"]

\* ExternalRTC.init_DS3231: test_date written and read back by the self test.
test_date == <<2024, 1, 12, 21, 22, 23>>

\* Variant of is_configured that reports a module whether or not one was initialised.
is_configured_always == TRUE

\* ExternalRTC.is_configured: whether a module was found and initialised.
is_configured == external_rtc_RTC # "None"

\* InternalRTC.get_time: self.rtc.datetime()[:6]
InternalRTC_get_time == Ok(SubSeq(mcu_rtc, 1, 6))

\* ExternalRTC.get_time -> _call_rtc_method("read_time"): raises when no module is
\* initialised or the bus transfer fails, else DS3231.read_time().
ExternalRTC_get_time(fault) ==
    IF external_rtc_RTC = "None" \/ fault THEN Raise
    ELSE Ok(DS3231_read_time(ds3231_regs))

\* self.time_source.get_time() on the selected object.
Source_get_time(source, fault) ==
    IF source = "rtc" THEN InternalRTC_get_time ELSE ExternalRTC_get_time(fault)

\* InternalRTC.set_time(*args): six positional parameters, anything else is a TypeError;
\* writes (year, month, day, 0, hours, minutes, seconds, 0) to machine.RTC.
InternalRTC_set_time(args) ==
    IF Len(args) # 6 THEN [ok |-> FALSE, mcu |-> mcu_rtc, regs |-> ds3231_regs, wrote |-> FALSE]
    ELSE [ok |-> TRUE,
          mcu |-> <<args[1], args[2], args[3], 0, args[4], args[5], args[6], 0>>,
          regs |-> ds3231_regs, wrote |-> TRUE]

\* ExternalRTC.set_time(*args): six positional parameters, anything else is a TypeError;
\* _call_rtc_method raises when no module is initialised or the bus transfer fails.
ExternalRTC_set_time(args, fault) ==
    IF Len(args) # 6 \/ external_rtc_RTC = "None" \/ fault
    THEN [ok |-> FALSE, mcu |-> mcu_rtc, regs |-> ds3231_regs, wrote |-> FALSE]
    ELSE [ok |-> TRUE, mcu |-> mcu_rtc,
          regs |-> DS3231_set_time(args[1], args[2], args[3], args[4], args[5], args[6]),
          wrote |-> TRUE]

\* self.time_source.set_time(*args) on the selected object.
Source_set_time(source, args, fault) ==
    IF source = "rtc" THEN InternalRTC_set_time(args) ELSE ExternalRTC_set_time(args, fault)

\* ------------------------------------------------------------------ network values

CYW43_LINK_DOWN == 0
CYW43_LINK_JOIN == 1
CYW43_LINK_NOIP == 2
CYW43_LINK_UP == 3
CYW43_LINK_FAIL == 0 - 1
CYW43_LINK_NONET == 0 - 2
CYW43_LINK_BADAUTH == 0 - 3

ntp_port == 123

\* Outcomes of getaddrinfo() for ntp_host: an exception, no entry, three hosts of
\* which one is listed twice, two hosts.
DnsAnswers == { [raise |-> TRUE, addrinfo |-> <<>>],
                [raise |-> FALSE, addrinfo |-> <<>>],
                [raise |-> FALSE, addrinfo |-> <<"ip1", "ip2", "ip1", "ip3">>],
                [raise |-> FALSE, addrinfo |-> <<"ip2", "ip1">>] }

\* What wlan.status() and wlan.ifconfig() may show together.
RadioStates == { [status |-> CYW43_LINK_UP, ip |-> "192.168.1.2", dns |-> "192.168.1.1"],
                 [status |-> CYW43_LINK_UP, ip |-> "192.168.1.2", dns |-> "0.0.0.0"],
                 [status |-> CYW43_LINK_DOWN, ip |-> "0.0.0.0", dns |-> "0.0.0.0"] }

Range(q) == {q[i] : i \in DOMAIN q}

\* WirelessNetwork.has_valid_network_config
has_valid_network_config ==
    /\ wlan_ifconfig.ip \notin {"0.0.0.0", "Unknown"}
    /\ wlan_ifconfig.dns \notin {"0.0.0.0", "Unknown"}

\* The link is Up with a valid IP/DNS configuration.
LinkReady == wlan_status = CYW43_LINK_UP /\ has_valid_network_config

\* ------------------------------------------------------------------ calendar

\* Days from 1970-01-01 to the civil date y-m-d (proleptic Gregorian), as utime.time().
days_from_civil(y, m, d) ==
    LET yy == IF m <= 2 THEN y - 1 ELSE y
        era == yy \div 400
        yoe == yy - era * 400
        mp == IF m > 2 THEN m - 3 ELSE m + 9
        doy == (153 * mp + 2) \div 5 + d - 1
        doe == yoe * 365 + yoe \div 4 - yoe \div 100 + doy
    IN era * 146097 + doe - 719468

\* utime.gmtime(days * 86400 + sod): (year, month, mday, hour, minute, second,
\* weekday, yearday), weekday 0 = Monday.
gmtime(days, sod) ==
    LET z == days + 719468
        era == z \div 146097
        doe == z - era * 146097
        yoe == (doe - doe \div 1460 + doe \div 36524 - doe \div 146096) \div 365
        doy == doe - (365 * yoe + yoe \div 4 - yoe \div 100)
        mp == (5 * doy + 2) \div 153
        d == doy - (153 * mp + 2) \div 5 + 1
        m == IF mp < 10 THEN mp + 3 ELSE mp - 9
        y == yoe + era * 400 + (IF m <= 2 THEN 1 ELSE 0)
    IN << y, m, d, sod \div 3600, (sod \div 60) % 60, sod % 60,
          (days + 3) % 7, days - days_from_civil(y, 1, 1) + 1 >>

\* utime.time() read from machine.RTC: seconds since 1970-01-01.
time(datetime) ==
    days_from_civil(datetime[1], datetime[2], datetime[3]) * 86400
        + datetime[5] * 3600 + datetime[6] * 60 + datetime[7]

\* async_get_timestamp_from_ntp: local_epoch = 2208988800 seconds = 25567 days from
\* 1900-01-01 to 1970-01-01. A transmit timestamp is held as (days, second of day)
\* since 1900 because its value in seconds exceeds the checker's integers.
local_epoch_days == 25567

\* Transmit timestamps a server may answer with: 2025-03-09 01:59:59 and
\* 2026-11-01 12:00:05 UTC.
NtpReplies == { [days |-> 45723, sod |-> 7199], [days |-> 46325, sod |-> 43205] }

\* struct.unpack("!I", data[40:44])[0] - local_epoch, then gmtime().
DecodeReply(reply) == gmtime(reply.days - local_epoch_days, reply.sod)

\* ------------------------------------------------------------------ server pool

\* WirelessNetwork.refresh_ntp_servers, the loop over addrinfo: the addresses in
\* order of first occurrence.
RECURSIVE ResolvedServers(_, _)
ResolvedServers(addrinfo, resolved_servers) ==
    IF addrinfo = <<>> THEN resolved_servers
    ELSE ResolvedServers(Tail(addrinfo),
                         IF Head(addrinfo) \in Range(resolved_servers)
                         THEN resolved_servers
                         ELSE Append(resolved_servers, Head(addrinfo)))

\* The cached pool: server list, rotation index and current address.
Pool == [servers |-> ntp_servers, index |-> ntp_server_index, address |-> ntp_address]

\* Variant of resolved_pool that keeps the rotation index of the pool it replaces.
resolved_pool_index_kept(pool, resolved_servers) ==
    [servers |-> resolved_servers, index |-> pool.index,
     address |-> <<resolved_servers[1], ntp_port>>]

\* refresh_ntp_servers, the three assignments after a non-empty resolution: the pool
\* that replaces pool.
resolved_pool(pool, resolved_servers) ==
    [servers |-> resolved_servers, index |-> 0,
     address |-> <<resolved_servers[1], ntp_port>>]

\* Variant of refresh_ntp_servers that stores the resolved list before testing it.
refresh_ntp_servers_store_first(pool, valid, dns) ==
    IF ~valid \/ dns.raise THEN [result |-> FALSE, pool |-> pool]
    ELSE LET resolved_servers == ResolvedServers(dns.addrinfo, <<>>) IN
         IF resolved_servers = <<>>
         THEN [result |-> FALSE, pool |-> [pool EXCEPT !.servers = resolved_servers]]
         ELSE [result |-> TRUE,
               pool |-> [servers |-> resolved_servers, index |-> 0,
                         address |-> <<resolved_servers[1], ntp_port>>]]

\* WirelessNetwork.refresh_ntp_servers: the returned bool and the pool afterwards.
refresh_ntp_servers(pool, valid, dns) ==
    IF ~valid THEN [result |-> FALSE, pool |-> pool]
    ELSE IF dns.raise THEN [result |-> FALSE, pool |-> pool]
    ELSE LET resolved_servers == ResolvedServers(dns.addrinfo, <<>>) IN
         IF resolved_servers = <<>> THEN [result |-> FALSE, pool |-> pool]
         ELSE [result |-> TRUE, pool |-> resolved_pool(pool, resolved_servers)]

\* Entries of sync_log.
EvRefresh(why, valid, dns, before, r) ==
    [ev |-> "refresh", why |-> why, valid |-> valid, dns |-> dns,
     before |-> before, after |-> r.pool, result |-> r.result]
EvSend(pass, attempt, pool, ready) ==
    [ev |-> "send", pass |-> pass,
     index |-> (pool.index + attempt) % Len(pool.servers),
     count |-> Len(pool.servers), ready |-> ready]
EvExhausted(pass) == [ev |-> "exhausted", pass |-> pass]

\* Variant of retry_after_refresh that retries whatever the DNS refresh returned.
retry_after_refresh_always(allow_dns_refresh_retry, refreshed) == allow_dns_refresh_retry

\* async_get_timestamp_from_ntp lines 436-439: the retry pass is made when
\* allow_dns_refresh_retry is set and refresh_ntp_servers() returned True.
retry_after_refresh(allow_dns_refresh_retry, refreshed) ==
    allow_dns_refresh_retry /\ refreshed

\* ------------------------------------------------------------------ arbiter

\* Variant of ScanStatus in which a true NTP entry is not skipped but selects the
\* internal clock that the network sync has just set.
RECURSIVE ScanStatus_ntp_selects(_, _)
ScanStatus_ntp_selects(table, i) ==
    IF i > Len(table) THEN "fallback"
    ELSE IF ~table[i].status THEN ScanStatus_ntp_selects(table, i + 1)
    ELSE IF table[i].name = "RTC" THEN "RTC"
    ELSE IF table[i].name \in {"NTP", "PRTC"} THEN "PRTC"
    ELSE ScanStatus_ntp_selects(table, i + 1)

\* The loop of TimeSource.update_time_source over the status list from entry i on:
\* the name selected by the first matching entry, or "fallback" when the loop ends.
RECURSIVE ScanStatus(_, _)
ScanStatus(table, i) ==
    IF i > Len(table) THEN "fallback"
    ELSE IF table[i].name = "NTP" \/ ~table[i].status THEN ScanStatus(table, i + 1)
    ELSE IF table[i].name = "RTC" THEN "RTC"
    ELSE IF table[i].name = "PRTC" THEN "PRTC"
    ELSE ScanStatus(table, i + 1)

\* Variant of update_time_source whose fallback is always the internal RTC.
update_time_source_fallback_internal(table, configured) ==
    LET hit == ScanStatus(table, 1) IN
    IF hit = "RTC" THEN [name |-> "RTC", source |-> "external_rtc"]
    ELSE [name |-> "PRTC", source |-> "rtc"]

\* TimeSource.update_time_source: the (source_name, source) handed to select_time_source.
update_time_source(table, configured) ==
    LET hit == ScanStatus(table, 1) IN
    IF hit = "RTC" THEN [name |-> "RTC", source |-> "external_rtc"]
    ELSE IF hit = "PRTC" THEN [name |-> "PRTC", source |-> "rtc"]
    ELSE IF configured THEN [name |-> "RTC", source |-> "external_rtc"]
    ELSE [name |-> "PRTC", source |-> "rtc"]

\* Variant of select_time_source that records the name but keeps the old source object.
select_time_source_name_only(sel) ==
    /\ time_source' = time_source
    /\ selected_time_source_name' = sel.name

\* TimeSource.select_time_source(source_name, source)
select_time_source(sel) ==
    /\ time_source' = sel.source
    /\ selected_time_source_name' = sel.name

\* TimeSource.set_time_sync_status: the table after setting the first entry named
\* method_name (the table is unchanged when no entry has that name).
set_time_sync_status(table, method_name, status) ==
    LET hits == {i \in DOMAIN table : table[i].name = method_name} IN
    IF hits = {} THEN table
    ELSE LET first == CHOOSE i \in hits : \A j \in hits : i <= j IN
         [table EXCEPT ![first] = TimeSyncStatus(method_name, status)]

\* Events recorded in op_trace.
EvRead(source, fault, r) == [ev |-> "read", source |-> source, fault |-> fault, ok |-> r.ok]
EvWrite(source, args, fault, r) ==
    [ev |-> "write", source |-> source, args |-> args, fault |-> fault, ok |-> r.ok]
EvUpdate == [ev |-> "update_time_source"]

\* ------------------------------------------------------------------ arbiter actions

\* State while TimeSource.__init__ runs, before init_external_rtc().
InitArbiter ==
    /\ constructed = FALSE
    /\ time_sync_status = [i \in 1..4 |-> TimeSyncStatus(SourceNames[i], FALSE)]
    /\ external_rtc_RTC = "None"
    /\ time_source = "rtc"
    /\ selected_time_source_name = "None"
    /\ on_time_sync = "None"
    /\ mcu_rtc = McuRtcAtBoot
    /\ ds3231_regs = DS3231_set_time(2025, 3, 9, 1, 59, 59)
    /\ op = "none"
    /\ op_arg = <<>>
    /\ op_trace = <<>>
    /\ op_result = "none"

\* TimeSource.__init__: init_external_rtc() then update_time_source().
\* found: the bus scan lists address 0x68; fault: where the self test's bus traffic fails.
TimeSource_init(found, fault) ==
    /\ ~constructed
    /\ LET written == DS3231_set_time(test_date[1], test_date[2], test_date[3],
                                      test_date[4], test_date[5], test_date[6])
           regs == IF found /\ fault # "write" THEN written ELSE ds3231_regs
           passed == found /\ fault = "none" /\ DS3231_read_time(regs) = test_date
           module == IF passed THEN "DS3231" ELSE "None"
       IN /\ ds3231_regs' = regs
          /\ external_rtc_RTC' = module
          /\ on_time_sync' = IF passed THEN "on_ntp_sync" ELSE on_time_sync
          /\ select_time_source(update_time_source(time_sync_status, module # "None"))
    /\ constructed' = TRUE
    /\ op' = "__init__"
    /\ op_arg' = <<>>
    /\ op_trace' = <<EvUpdate>>
    /\ op_result' = "none"
    /\ UNCHANGED <<time_sync_status, mcu_rtc>>

\* A call of TimeSource.set_time_sync_status(method_name, status).
TimeSource_set_time_sync_status(method_name, status) ==
    /\ constructed
    /\ time_sync_status' = set_time_sync_status(time_sync_status, method_name, status)
    /\ op' = "set_time_sync_status"
    /\ op_arg' = <<method_name, status>>
    /\ op_trace' = <<>>
    /\ op_result' = "none"
    /\ UNCHANGED <<constructed, external_rtc_RTC, time_source, selected_time_source_name,
                   on_time_sync, mcu_rtc, ds3231_regs>>

\* A call of TimeSource.update_time_source().
TimeSource_update_time_source ==
    /\ constructed
    /\ select_time_source(update_time_source(time_sync_status, is_configured))
    /\ op' = "update_time_source"
    /\ op_arg' = <<>>
    /\ op_trace' = <<EvUpdate>>
    /\ op_result' = "none"
    /\ UNCHANGED <<constructed, time_sync_status, external_rtc_RTC, on_time_sync,
                   mcu_rtc, ds3231_regs>>

\* Variant of get_time that retries the read without re-evaluating the selection.
TimeSource_get_time_no_reeval(fault1, fault2) ==
    /\ constructed
    /\ LET r1 == Source_get_time(time_source, fault1) IN
       IF r1.ok
       THEN /\ op_trace' = <<EvRead(time_source, fault1, r1)>>
            /\ op_result' = r1.val
       ELSE LET r2 == Source_get_time(time_source, fault2)
            IN /\ op_trace' = <<EvRead(time_source, fault1, r1), EvRead(time_source, fault2, r2)>>
               /\ op_result' = r2.val
    /\ op' = "get_time"
    /\ op_arg' = <<>>
    /\ UNCHANGED <<constructed, time_sync_status, external_rtc_RTC, on_time_sync,
                   mcu_rtc, ds3231_regs, time_source, selected_time_source_name>>

\* A call of TimeSource.get_time(); fault1, fault2: the bus fails at the first, second read.
TimeSource_get_time(fault1, fault2) ==
    /\ constructed
    /\ LET r1 == Source_get_time(time_source, fault1) IN
       IF r1.ok
       THEN /\ op_trace' = <<EvRead(time_source, fault1, r1)>>
            /\ op_result' = r1.val
            /\ UNCHANGED <<time_source, selected_time_source_name>>
       ELSE LET sel == update_time_source(time_sync_status, is_configured)
                r2 == Source_get_time(sel.source, fault2)
            IN /\ select_time_source(sel)
               /\ op_trace' = <<EvRead(time_source, fault1, r1), EvUpdate, EvRead(sel.source, fault2, r2)>>
               /\ op_result' = r2.val
    /\ op' = "get_time"
    /\ op_arg' = <<>>
    /\ UNCHANGED <<constructed, time_sync_status, external_rtc_RTC, on_time_sync,
                   mcu_rtc, ds3231_regs>>

\* A call of TimeSource.set_time(time_tuple): the first call passes the tuple as one
\* positional argument, the retry unpacks it (*time_tuple).
TimeSource_set_time(time_tuple, fault1, fault2) ==
    /\ constructed
    /\ LET w1 == Source_set_time(time_source, <<time_tuple>>, fault1) IN
       IF w1.ok
       THEN /\ op_trace' = <<EvWrite(time_source, <<time_tuple>>, fault1, w1)>>
            /\ op_result' = "none"
            /\ mcu_rtc' = w1.mcu
            /\ ds3231_regs' = w1.regs
            /\ UNCHANGED <<time_source, selected_time_source_name>>
       ELSE LET sel == update_time_source(time_sync_status, is_configured)
                w2 == Source_set_time(sel.source, time_tuple, fault2)
            IN /\ select_time_source(sel)
               /\ op_trace' = <<EvWrite(time_source, <<time_tuple>>, fault1, w1), EvUpdate,
                                EvWrite(sel.source, time_tuple, fault2, w2)>>
               /\ op_result' = IF w2.ok THEN "none" ELSE "raise"
               /\ mcu_rtc' = w2.mcu
               /\ ds3231_regs' = w2.regs
    /\ op' = "set_time"
    /\ op_arg' = time_tuple
    /\ UNCHANGED <<constructed, time_sync_status, external_rtc_RTC, on_time_sync>>

\* ------------------------------------------------------------------ arbiter claims

\* The status flag of the entry named name.
Flag(name) == \E i \in DOMAIN time_sync_status :
                  time_sync_status[i].name = name /\ time_sync_status[i].status

\* The last operation ended with a re-evaluation of the selection on the current table.
JustReevaluated == Len(op_trace) > 0 /\ \E i \in DOMAIN op_trace : op_trace[i] = EvUpdate

\* The six-field civil time a source object's device holds.
HeldTime(source) ==
    IF source = "rtc"
    THEN <<mcu_rtc[1], mcu_rtc[2], mcu_rtc[3], mcu_rtc[5], mcu_rtc[6], mcu_rtc[7]>>
    ELSE DS3231_read_time(ds3231_regs)

FlipNTP(table) ==
    [i \in DOMAIN table |->
        IF table[i].name = "NTP" THEN TimeSyncStatus("NTP", ~table[i].status) ELSE table[i]]

C3_SelectionAlwaysSet ==
    constructed =>
        /\ \/ time_source = "external_rtc" /\ selected_time_source_name = "RTC"
           \/ time_source = "rtc" /\ selected_time_source_name = "PRTC"
        /\ (op = "__init__" =>
               time_source = (IF is_configured THEN "external_rtc" ELSE "rtc"))

C3_Witness ==
    /\ op = "__init__"
    /\ is_configured
    /\ time_source = "external_rtc"

\* C4: get_time returns the selected device's time after one read when that read
\* succeeds; otherwise it re-evaluates once, reads once more from the newly selected
\* device and returns that value, or raises when the second read fails too.
C4_GetTimeRetry ==
    op = "get_time" =>
        \/ /\ Len(op_trace) = 1
           /\ op_trace[1].ev = "read" /\ op_trace[1].ok
           /\ op_trace[1].source = time_source
           /\ op_result = SubSeq(IF time_source = "rtc" THEN mcu_rtc
                                 ELSE DS3231_read_time(ds3231_regs), 1, 6)
        \/ /\ Len(op_trace) = 3
           /\ op_trace[1].ev = "read" /\ ~op_trace[1].ok
           /\ op_trace[2] = EvUpdate
           /\ op_trace[3].ev = "read"
           /\ op_trace[3].source = time_source
           /\ time_source = update_time_source(time_sync_status, is_configured).source
           /\ IF op_trace[3].ok
              THEN op_result = SubSeq(IF time_source = "rtc" THEN mcu_rtc
                                      ELSE DS3231_read_time(ds3231_regs), 1, 6)
              ELSE op_result = "raise"

C4_Witness ==
    /\ op = "get_time"
    /\ Len(op_trace) = 3
    /\ op_trace[1].source = "external_rtc"
    /\ op_trace[3].source = "rtc" /\ op_trace[3].ok

\* The device behind a write event would take a well-formed write.
DeviceAccepts(e) == e.source = "rtc" \/ (is_configured /\ ~e.fault)

\* C5: set_time(t) writes t to the selected RTC; when the device accepts the write it
\* holds t and no re-evaluation happens; when the write fails the selection is
\* re-evaluated once and t is written once more to the newly selected device, and a
\* second failure propagates.
C5_SetTimeDelegates ==
    op = "set_time" =>
        IF DeviceAccepts(op_trace[1])
        THEN /\ Len(op_trace) = 1
             /\ HeldTime(op_trace[1].source) = op_arg
             /\ op_result = "none"
        ELSE /\ Len(op_trace) = 3
             /\ op_trace[2] = EvUpdate
             /\ op_trace[3].ev = "write" /\ op_trace[3].args = op_arg
             /\ op_trace[3].source = time_source
             /\ (op_trace[3].ok => HeldTime(time_source) = op_arg /\ op_result = "none")
             /\ (~op_trace[3].ok => op_result = "raise")

NextArbiter ==
    \/ \E found \in BOOLEAN, fault \in {"none", "write", "read"} : TimeSource_init(found, fault)
    \/ \E n \in {"GPS", "NTP", "RTC", "PRTC"}, s \in BOOLEAN : TimeSource_set_time_sync_status(n, s)
    \/ TimeSource_update_time_source
    \/ \E f1 \in BOOLEAN, f2 \in BOOLEAN : TimeSource_get_time(f1, f2)
    \/ \E t \in CivilTimes, f1 \in BOOLEAN, f2 \in BOOLEAN : TimeSource_set_time(t, f1, f2)

\* Before startup() no task is created and network_monitor has not run.
InitMonitor ==
    /\ sync_tasks = 0
    /\ monitor_polls = 0
    /\ start_result = "none"

\* WirelessNetwork.__init__: nothing is connected yet, so refresh_ntp_servers() at
\* the end of the constructor finds no valid configuration and the pool starts empty.
InitNetwork ==
    /\ wlan_status = CYW43_LINK_DOWN
    /\ wlan_ifconfig = [ip |-> "0.0.0.0", dns |-> "0.0.0.0"]
    /\ ntp_servers = <<>>
    /\ ntp_server_index = 0
    /\ ntp_address = <<>>
    /\ ntp_sync_in_progress = FALSE
    /\ ntp_sync_status = FALSE
    /\ prtc_sync_status = FALSE
    /\ ntp_last_synced_timestamp = 0
    /\ network_check_in_progress = FALSE
    /\ check_tasks = 0
    /\ sync_pc = "idle"
    /\ sync_pass = 1
    /\ sync_attempt = 0
    /\ sync_log = <<>>
    /\ sync_result = "none"
    /\ sticky = -1
    /\ check_pc = "idle"
    /\ check_ticks = 0
    /\ retries = 0
    /\ check_log = <<>>
    /\ check_result = "none"
    /\ badauth_ended = FALSE
    /\ assoc_after_badauth = FALSE
    /\ skip_result = "none"
    /\ sync_decoded = <<>>
    /\ sync_callback = [registered |-> "None", calls |-> <<>>, raised |-> FALSE]
    /\ sync_ticks = 0

\* ------------------------------------------------------------------ sync actions

\* Most check_network_access tasks created and not yet started.
MaxCheckTasks == 2

\* TimeSource.on_ntp_sync(timestamp): writes timestamp[0:6] to the external RTC, passed
\* as one positional argument, and sets the RTC flag from the outcome; fault: the bus
\* transfer fails.
on_ntp_sync(timestamp, fault) ==
    IF is_configured
    THEN LET args == <<SubSeq(timestamp, 1, 6)>>
             w == ExternalRTC_set_time(args, fault)
         IN /\ ds3231_regs' = w.regs
            /\ time_sync_status' = set_time_sync_status(time_sync_status, "RTC", w.ok)
            /\ op_trace' = <<EvWrite("external_rtc", args, fault, w)>>
    ELSE /\ op_trace' = <<>>
         /\ UNCHANGED <<ds3231_regs, time_sync_status>>

\* create_task(self.check_network_access())
create_check_task == check_tasks' = check_tasks + 1

\* The radio and DHCP change state on their own.
RadioChange(status, ip, dns) ==
    /\ constructed
    /\ wlan_status' = status
    /\ wlan_ifconfig' = [ip |-> ip, dns |-> dns]
    /\ UNCHANGED <<arbVars, ntp_servers, ntp_server_index, ntp_address,
                   ntp_sync_in_progress,
                   ntp_sync_status, prtc_sync_status, ntp_last_synced_timestamp,
                   network_check_in_progress, check_tasks, sync_pc, sync_pass, sync_attempt,
                   sync_log, sync_result, sticky>>

\* What a call of async_sync_rtc_from_ntp leaves alone when it returns at its first
\* lines.
SyncRejectKeeps ==
    UNCHANGED <<arbVars, wlan_status, wlan_ifconfig, ntp_servers, ntp_server_index,
                ntp_address, ntp_sync_status, prtc_sync_status,
                ntp_last_synced_timestamp, network_check_in_progress, check_tasks,
                sync_pc, sync_pass, sync_attempt, sync_log, sticky>>

\* Variant of SyncRejected in which the early return runs the finally clause.
SyncRejected_clears_guard ==
    /\ constructed
    /\ ntp_sync_in_progress
    /\ sync_result' = "rejected"
    /\ ntp_sync_in_progress' = FALSE
    /\ SyncRejectKeeps

\* async_sync_rtc_from_ntp called while a sync is in progress (lines 445-447): it
\* returns False before the try block, so the finally clause of this call does not run.
SyncRejected ==
    /\ constructed
    /\ ntp_sync_in_progress
    /\ sync_result' = "rejected"
    /\ UNCHANGED ntp_sync_in_progress
    /\ SyncRejectKeeps

\* Variant of SyncNoNetwork that also marks the microcontroller clock unsynchronised.
SyncNoNetwork_clears_prtc ==
    /\ constructed
    /\ ~ntp_sync_in_progress
    /\ ~LinkReady
    /\ ntp_sync_status' = FALSE
    /\ prtc_sync_status' = FALSE
    /\ IF ~network_check_in_progress
       THEN check_tasks < MaxCheckTasks /\ create_check_task
       ELSE UNCHANGED check_tasks
    /\ sync_result' = "False"
    /\ sync_log' = <<>>
    /\ UNCHANGED <<arbVars, wlan_status, wlan_ifconfig, ntp_servers, ntp_server_index,
                   ntp_address, ntp_sync_in_progress,
                   ntp_last_synced_timestamp, network_check_in_progress,
                   sync_pc, sync_pass, sync_attempt, sticky>>

\* async_sync_rtc_from_ntp with the link not Up or no valid config: marks the sync
\* failed, schedules a reachability check unless one is in progress, returns False.
SyncNoNetwork ==
    /\ constructed
    /\ ~ntp_sync_in_progress
    /\ ~LinkReady
    /\ ntp_sync_status' = FALSE
    /\ IF ~network_check_in_progress
       THEN check_tasks < MaxCheckTasks /\ create_check_task
       ELSE UNCHANGED check_tasks
    /\ sync_result' = "False"
    /\ sync_log' = <<>>
    /\ UNCHANGED <<arbVars, wlan_status, wlan_ifconfig, ntp_servers, ntp_server_index,
                   ntp_address, ntp_sync_in_progress, prtc_sync_status,
                   ntp_last_synced_timestamp, network_check_in_progress,
                   sync_pc, sync_pass, sync_attempt, sticky>>

\* Variant of SyncGoesOn in which a failed attempt leaves the NTP flag as it was.
SyncGoesOn_status_kept(pool, pc, pass, attempt, log) ==
    /\ ntp_servers' = pool.servers
    /\ ntp_server_index' = pool.index
    /\ ntp_address' = pool.address
    /\ sync_pc' = pc
    /\ sync_pass' = pass
    /\ sync_attempt' = attempt
    /\ sync_log' = log
    /\ sticky' = IF pool = Pool THEN sticky ELSE -1
    /\ ntp_sync_in_progress' = (pc = "wait")
    /\ sync_result' = IF pc = "wait" THEN "none" ELSE "False"
    /\ UNCHANGED ntp_sync_status

\* The sync task goes on with the given pool and loop position: it waits for a
\* response (pc = "wait"), or async_get_timestamp_from_ntp returned None (pc = "idle")
\* and async_sync_rtc_from_ntp marks the sync failed and returns False.
SyncGoesOn(pool, pc, pass, attempt, log) ==
    /\ ntp_servers' = pool.servers
    /\ ntp_server_index' = pool.index
    /\ ntp_address' = pool.address
    /\ sync_pc' = pc
    /\ sync_pass' = pass
    /\ sync_attempt' = attempt
    /\ sync_log' = log
    /\ sticky' = IF pool = Pool THEN sticky ELSE -1
    /\ IF pc = "wait"
       THEN /\ ntp_sync_in_progress' = TRUE
            /\ sync_result' = "none"
            /\ UNCHANGED ntp_sync_status
       ELSE /\ ntp_sync_in_progress' = FALSE
            /\ sync_result' = "False"
            /\ ntp_sync_status' = FALSE

\* The for loop of async_get_timestamp_from_ntp at loop index attempt of the given
\* pass, up to the next await or the return: a datagram goes to the next server, or
\* the pool is exhausted and, in the first pass, re-resolved (answer dns) and retried
\* with allow_dns_refresh_retry=False.
SyncLoop(pool, pass, attempt, log) ==
    LET valid == has_valid_network_config IN
    IF attempt < Len(pool.servers)
    THEN SyncGoesOn(pool, "wait", pass, attempt,
                    Append(log, EvSend(pass, attempt, pool, LinkReady)))
    ELSE IF pass = 1
    THEN \E dns \in DnsAnswers :
            LET rf == refresh_ntp_servers(pool, valid, dns)
                log1 == log \o <<EvExhausted(pass), EvRefresh("retry", valid, dns, pool, rf)>>
            IN IF retry_after_refresh(pass = 1, rf.result) /\ valid /\ rf.pool.servers # <<>>
               THEN SyncGoesOn(rf.pool, "wait", 2, 0,
                               Append(log1, EvSend(2, 0, rf.pool, LinkReady)))
               ELSE SyncGoesOn(rf.pool, "idle", pass, attempt, log1)
    ELSE SyncGoesOn(pool, "idle", pass, attempt, Append(log, EvExhausted(pass)))

\* async_sync_rtc_from_ntp admitted with the link ready, up to its first await or
\* return: resolves the pool when none is cached (answer dns0), then starts the pass.
SyncStart ==
    /\ constructed
    /\ ~ntp_sync_in_progress
    /\ LinkReady
    /\ IF ntp_servers = <<>>
       THEN \E dns0 \in DnsAnswers :
               LET rf0 == refresh_ntp_servers(Pool, has_valid_network_config, dns0)
                   log0 == <<EvRefresh("empty", has_valid_network_config, dns0, Pool, rf0)>>
               IN IF rf0.result
                  THEN SyncLoop(rf0.pool, 1, 0, log0)
                  ELSE SyncGoesOn(rf0.pool, "idle", 1, 0, log0)
       ELSE SyncLoop(Pool, 1, 0, <<>>)
    /\ UNCHANGED <<arbVars, wlan_status, wlan_ifconfig, prtc_sync_status,
                   ntp_last_synced_timestamp, network_check_in_progress, check_tasks>>

\* The server waited for does not answer in 5000 ms, or the exchange with it raises:
\* the loop goes on with the next loop index, up to the next await or return.
SyncServerFails ==
    /\ sync_pc = "wait"
    /\ SyncLoop(Pool, sync_pass, sync_attempt + 1, sync_log)
    /\ UNCHANGED <<arbVars, wlan_status, wlan_ifconfig, prtc_sync_status,
                   ntp_last_synced_timestamp, network_check_in_progress, check_tasks>>

\* Variant of SyncWon that leaves the rotation index where it was.
SyncWon_index_kept(server_index) ==
    /\ ntp_server_index' = ntp_server_index
    /\ ntp_address' = <<ntp_servers[server_index + 1], ntp_port>>

\* async_get_timestamp_from_ntp lines 409-414: the answering server becomes the
\* last-successful one.
SyncWon(server_index) ==
    /\ ntp_server_index' = server_index
    /\ ntp_address' = <<ntp_servers[server_index + 1], ntp_port>>

\* WirelessNetwork.set_ntp_sync_callback(callback) with a callable that raises.
WirelessNetwork_set_ntp_sync_callback(callback) ==
    /\ constructed
    /\ on_time_sync # callback
    /\ on_time_sync' = callback
    /\ UNCHANGED <<constructed, time_sync_status, external_rtc_RTC, time_source,
                   selected_time_source_name, mcu_rtc, ds3231_regs, op, op_arg, op_trace,
                   op_result, netVars, syncObs>>

\* Variant of SyncSucceeded in which an exception of the callback reaches the except
\* clause of async_sync_rtc_from_ntp.
SyncSucceeded_unless_raised(raised) ==
    /\ ntp_last_synced_timestamp' = IF raised THEN ntp_last_synced_timestamp ELSE time(mcu_rtc')
    /\ ntp_sync_status' = ~raised
    /\ prtc_sync_status' = (prtc_sync_status \/ ~raised)
    /\ sync_result' = IF raised THEN "False" ELSE "True"
    /\ ntp_sync_in_progress' = FALSE

\* async_sync_rtc_from_ntp lines 477-486, after the callback returned or its exception
\* was caught and logged (raised).
SyncSucceeded(raised) ==
    /\ ntp_last_synced_timestamp' = time(mcu_rtc')
    /\ ntp_sync_status' = TRUE
    /\ prtc_sync_status' = TRUE
    /\ sync_result' = "True"
    /\ ntp_sync_in_progress' = FALSE

\* The server waited for answers with reply: the rest of async_sync_rtc_from_ntp.
SyncResponse(reply, fault) ==
    /\ sync_pc = "wait"
    /\ LET timestamp == DecodeReply(reply)
           server_index == (ntp_server_index + sync_attempt) % Len(ntp_servers)
       IN /\ SyncWon(server_index)
          /\ sticky' = server_index
          /\ mcu_rtc' = << timestamp[1], timestamp[2], timestamp[3], timestamp[7],
                           timestamp[4], timestamp[5], timestamp[6], 0 >>
          /\ sync_decoded' = timestamp
          /\ sync_callback' = [registered |-> on_time_sync,
                               calls |-> IF on_time_sync # "None" THEN <<timestamp>> ELSE <<>>,
                               raised |-> on_time_sync = "raises"]
          /\ IF on_time_sync = "on_ntp_sync"
             THEN /\ on_ntp_sync(timestamp, fault)
                  /\ op' = "on_ntp_sync"
                  /\ op_arg' = timestamp
                  /\ op_result' = "none"
             ELSE UNCHANGED <<ds3231_regs, time_sync_status, op, op_arg, op_trace, op_result>>
    /\ SyncSucceeded(on_time_sync = "raises")
    /\ sync_pc' = "idle"
    /\ UNCHANGED <<constructed, external_rtc_RTC, time_source, selected_time_source_name,
                   on_time_sync, wlan_status, wlan_ifconfig, ntp_servers,
                   network_check_in_progress, check_tasks, sync_pass, sync_attempt, sync_log>>

\* An admitted sync attempt starts with no time obtained.
SyncObsCleared ==
    /\ sync_decoded' = <<>>
    /\ sync_callback' = [registered |-> "None", calls |-> <<>>, raised |-> FALSE]

\* An exception leaves async_get_timestamp_from_ntp (a log write or an allocation
\* fails outside the per-server handlers), at the start of an admitted attempt or
\* while it goes on: the except clause of async_sync_rtc_from_ntp (lines 482-484) marks
\* the sync failed, the finally clause clears the guard, False is returned.
SyncRaises ==
    /\ constructed
    /\ IF sync_pc = "wait"
       THEN /\ SyncGoesOn(Pool, "idle", sync_pass, sync_attempt,
                          Append(sync_log, [ev |-> "raise"]))
            /\ UNCHANGED syncObs
       ELSE /\ ~ntp_sync_in_progress
            /\ LinkReady
            /\ SyncGoesOn(Pool, "idle", 1, 0, <<[ev |-> "raise"]>>)
            /\ SyncObsCleared
    /\ UNCHANGED <<arbVars, wlan_status, wlan_ifconfig, prtc_sync_status,
                   ntp_last_synced_timestamp, network_check_in_progress, check_tasks>>

NextNtp ==
    \/ \E found \in BOOLEAN, fault \in {"none", "write"} :
           TimeSource_init(found, fault) /\ UNCHANGED <<netVars, wifiVars, syncObs, otherVars>>
    \/ WirelessNetwork_set_ntp_sync_callback("raises") /\ UNCHANGED <<wifiVars, otherVars>>
    \/ \E r \in RadioStates :
           RadioChange(r.status, r.ip, r.dns) /\ UNCHANGED <<wifiVars, syncObs, otherVars>>
    \/ SyncRejected /\ UNCHANGED <<wifiVars, syncObs, otherVars>>
    \/ SyncNoNetwork /\ SyncObsCleared /\ UNCHANGED <<wifiVars, otherVars>>
    \/ SyncStart /\ SyncObsCleared /\ UNCHANGED <<wifiVars, otherVars>>
    \/ SyncServerFails /\ UNCHANGED <<wifiVars, syncObs, otherVars>>
    \/ SyncRaises /\ UNCHANGED <<wifiVars, otherVars>>
    \/ \E reply \in NtpReplies, fault \in BOOLEAN :
           SyncResponse(reply, fault) /\ UNCHANGED <<wifiVars, otherVars>>

\* ------------------------------------------------------------------ claims C6-C8

\* The datagrams of one pass, in the order sent.
SendsOf(log, pass) == SelectSeq(log, LAMBDA e : e.ev = "send" /\ e.pass = pass)

\* The DNS resolutions of the sync.
RefreshesOf(log) == SelectSeq(log, LAMBDA e : e.ev = "refresh")

\* The resolutions made after the pool was exhausted.
RetriesOf(log) == SelectSeq(log, LAMBDA e : e.ev = "refresh" /\ e.why = "retry")

\* The exhaustions of one pass.
ExhaustionsOf(log, pass) == SelectSeq(log, LAMBDA e : e.ev = "exhausted" /\ e.pass = pass)

\* The servers of a pass are visited in cyclic order from the first, each at most once.
Cyclic(sends) ==
    /\ sends # <<>> => Len(sends) <= sends[1].count
    /\ \A i \in DOMAIN sends : /\ sends[i].count = sends[1].count
                               /\ sends[i].index = (sends[1].index + i - 1) % sends[1].count

\* C6: rotation is sticky. When a sync succeeds, the index of the server that answered
\* (the one the last datagram went to) becomes the last-successful index and the
\* current address; as long as the pool is not re-resolved, the next sync sends its
\* first datagram to that index (sticky holds the index of the last winner, -1 after a
\* re-resolution), and every pass visits the servers in cyclic order from its first
\* one, each at most once.
C6_StickyRotation ==
    /\ sync_result = "True" =>
           /\ sync_log # <<>>
           /\ sync_log[Len(sync_log)].ev = "send"
           /\ ntp_server_index = sync_log[Len(sync_log)].index
           /\ ntp_address = <<ntp_servers[sync_log[Len(sync_log)].index + 1], ntp_port>>
    /\ (sync_result # "True" /\ sticky # -1 /\ SendsOf(sync_log, 1) # <<>>) =>
           SendsOf(sync_log, 1)[1].index = sticky
    /\ Cyclic(SendsOf(sync_log, 1))
    /\ Cyclic(SendsOf(sync_log, 2))

\* A sync that follows a success at index 2 of 3 has sent to index 2 and then, the
\* server not answering, wrapped to index 0.
C6_Witness ==
    /\ sync_pc = "wait"
    /\ sticky = 2
    /\ RefreshesOf(sync_log) = <<>>
    /\ Len(SendsOf(sync_log, 1)) = 2
    /\ SendsOf(sync_log, 1)[1].index = 2
    /\ SendsOf(sync_log, 1)[2].index = 0
    /\ SendsOf(sync_log, 1)[1].count = 3

C8_RefreshFailsClosed ==
    /\ \A i \in DOMAIN sync_log :
          sync_log[i].ev = "refresh" =>
             LET e == sync_log[i] IN
             /\ (~e.valid \/ e.dns.raise \/ e.dns.addrinfo = <<>>) => ~e.result
             /\ ~e.result => e.after = e.before
             /\ e.result =>
                   /\ e.after.servers # <<>>
                   /\ \A a, b \in DOMAIN e.after.servers :
                          e.after.servers[a] = e.after.servers[b] => a = b
                   /\ Range(e.after.servers) = Range(e.dns.addrinfo)
                   /\ e.after.index = 0
                   /\ e.after.address = <<e.after.servers[1], ntp_port>>
    /\ (sync_log # <<>> /\ sync_log[Len(sync_log)].ev = "refresh") =>
           Pool = sync_log[Len(sync_log)].after

\* A re-resolution failed while a pool with a rotated index was cached, and the pool
\* is still the one cached before.
C8_Witness ==
    /\ sync_log # <<>>
    /\ sync_log[Len(sync_log)].ev = "refresh"
    /\ ~sync_log[Len(sync_log)].result
    /\ sync_log[Len(sync_log)].before.index > 0
    /\ Len(sync_log[Len(sync_log)].before.servers) = 3
    /\ Pool = sync_log[Len(sync_log)].before

\* ------------------------------------------------------------------ claims C12

\* C12: at most one sync attempt runs at a time. The guard is set exactly while the one
\* sync task waits for a response, and a call that finds the guard set returns False at
\* once: it sends nothing (the log of sends is as it was), leaves the sync status flags,
\* the pool and the running attempt's position as they were, and leaves the guard set.
C12_OneSyncAtATime ==
    /\ [](ntp_sync_in_progress <=> sync_pc = "wait")
    /\ [][(ntp_sync_in_progress /\ sync_result' = "rejected") =>
             /\ ntp_sync_in_progress'
             /\ UNCHANGED <<sync_log, sync_pc, sync_pass, sync_attempt, ntp_sync_status,
                            prtc_sync_status, ntp_last_synced_timestamp, ntp_servers,
                            ntp_server_index, ntp_address, mcu_rtc, check_tasks>>]_vars

\* A second call was rejected while the first attempt waits for its second server.
C12_Witness ==
    /\ sync_result = "rejected"
    /\ ntp_sync_in_progress
    /\ sync_pc = "wait"
    /\ Len(SendsOf(sync_log, 1)) = 2

\* ------------------------------------------------------------------ claims C13-C15

\* C13: every datagram of a sync is sent with the link Up and a valid IP/DNS
\* configuration.
C13_SendOnlyWhenReady ==
    \A i \in DOMAIN sync_log : sync_log[i].ev = "send" => sync_log[i].ready

\* C14: a sync attempt that obtained a decoded time (sync_decoded holds it until the
\* next admitted attempt) has set the microcontroller clock
\* from its year, month, day, hour, minute and second, has called the callback
\* registered at that moment exactly once with the decoded tuple (and no callback
\* when none is registered), has recorded the last-synced timestamp, has set the NTP
\* and PRTC flags and has returned True with the guard cleared, also when the callback
\* raised.
C14_SuccessEffects ==
    sync_decoded # <<>> =>
          /\ sync_result = "True"
          /\ Len(sync_decoded) = 8
          /\ mcu_rtc = << sync_decoded[1], sync_decoded[2], sync_decoded[3], sync_decoded[7],
                          sync_decoded[4], sync_decoded[5], sync_decoded[6], 0 >>
          /\ sync_callback.calls = IF sync_callback.registered = "None"
                                   THEN <<>> ELSE <<sync_decoded>>
          /\ ntp_last_synced_timestamp = time(mcu_rtc)
          /\ ntp_last_synced_timestamp # 0
          /\ ntp_sync_status
          /\ prtc_sync_status
          /\ ~ntp_sync_in_progress
          /\ sync_pc = "idle"

\* A sync succeeded although the registered callback raised.
C14_Witness ==
    /\ sync_result = "True"
    /\ sync_callback.raised
    /\ sync_callback.calls = <<sync_decoded>>
    /\ sync_decoded[1] = 2026

\* C15: an admitted sync attempt that obtains no time (no network, no server
\* answered, the re-resolution failed, or an exception inside the attempt) returns
\* False with the NTP flag false and the guard cleared; the outcome of every call is
\* True or False, never an exception, and it is True only when a time was obtained.
C15_FailureReturnsFalse ==
    /\ sync_result \in {"none", "True", "False", "rejected"}
    /\ sync_result = "False" =>
          /\ ~ntp_sync_status
          /\ ~ntp_sync_in_progress
          /\ sync_pc = "idle"
          /\ sync_decoded = <<>>
    /\ sync_pc = "idle" =>
          /\ sync_result \in {"none", "True", "False"}
          /\ sync_result = "True" <=> sync_decoded # <<>>
          /\ sync_result = "none" => sync_log = <<>> /\ ntp_last_synced_timestamp = 0

\* A sync succeeded earlier; a later attempt ended in an exception after its first
\* send and left the NTP flag false.
C15_Witness ==
    /\ sync_result = "False"
    /\ prtc_sync_status
    /\ ~ntp_sync_status
    /\ Len(sync_log) = 2
    /\ sync_log[2].ev = "raise"

\* ------------------------------------------------------------------ link manager

\* config.WIFI_CONNECT_RETRIES
WIFI_CONNECT_RETRIES == 1

\* Polls of wait_status and of wait_for_dhcp before they give up:
\* ceil(timeout / tick_sleep).
WaitTicks == 2

\* What wlan.status() and wlan.ifconfig() may show together while the link manager
\* runs; a lease may outlive the link.
WifiRadioStates ==
    { [status |-> CYW43_LINK_UP, ip |-> "192.168.1.2", dns |-> "192.168.1.1"],
      [status |-> CYW43_LINK_UP, ip |-> "192.168.1.2", dns |-> "0.0.0.0"],
      [status |-> CYW43_LINK_NOIP, ip |-> "0.0.0.0", dns |-> "0.0.0.0"],
      [status |-> CYW43_LINK_JOIN, ip |-> "0.0.0.0", dns |-> "0.0.0.0"],
      [status |-> CYW43_LINK_JOIN, ip |-> "192.168.1.2", dns |-> "192.168.1.1"],
      [status |-> CYW43_LINK_DOWN, ip |-> "0.0.0.0", dns |-> "0.0.0.0"],
      [status |-> CYW43_LINK_DOWN, ip |-> "192.168.1.2", dns |-> "192.168.1.1"],
      [status |-> CYW43_LINK_FAIL, ip |-> "0.0.0.0", dns |-> "0.0.0.0"],
      [status |-> CYW43_LINK_NONET, ip |-> "0.0.0.0", dns |-> "0.0.0.0"],
      [status |-> CYW43_LINK_BADAUTH, ip |-> "0.0.0.0", dns |-> "0.0.0.0"] }

\* The check task goes on to its next await, having done events.
CheckGoesOn(pc, ticks, r, log, events) ==
    /\ check_pc' = pc
    /\ check_ticks' = ticks
    /\ retries' = r
    /\ check_log' = log \o events
    /\ check_result' = "none"
    /\ network_check_in_progress' = TRUE
    /\ badauth_ended' = (badauth_ended \/ "badauth" \in Range(events))
    /\ assoc_after_badauth' = (assoc_after_badauth
                                 \/ (badauth_ended /\ "connect" \in Range(events)))
    /\ UNCHANGED skip_result

\* Variant of CheckEnds in which a raised authentication error leaves the guard set.
CheckEnds_guard_kept(result, r, log, events) ==
    /\ check_pc' = "idle"
    /\ check_ticks' = 0
    /\ retries' = r
    /\ check_log' = log \o events
    /\ check_result' = result
    /\ network_check_in_progress' = (result = "ValueError")
    /\ UNCHANGED <<badauth_ended, assoc_after_badauth, skip_result>>

\* check_network_access leaves its try block, by return or by raise: the finally
\* clause clears the guard.
CheckEnds(result, r, log, events) ==
    /\ check_pc' = "idle"
    /\ check_ticks' = 0
    /\ retries' = r
    /\ check_log' = log \o events
    /\ check_result' = result
    /\ network_check_in_progress' = FALSE
    /\ UNCHANGED <<badauth_ended, assoc_after_badauth, skip_result>>

\* check_network_access lines 278-283: the result once the loop is left.
CheckResult == IF wlan_status = 3 /\ has_valid_network_config THEN "True" ELSE "False"

\* The while condition of check_network_access (line 263) with r retries made; when it
\* holds, connect_wifi -> attempt_ap_connect -> disconnect_wifi_if_necessary run up to
\* the first await: an associated radio is disconnected first, any other is told to
\* connect.
LoopHead(r, log) ==
    IF (wlan_status # 3 \/ ~has_valid_network_config) /\ r <= WIFI_CONNECT_RETRIES
    THEN IF wlan_status >= CYW43_LINK_JOIN /\ wlan_status <= CYW43_LINK_UP
         THEN CheckGoesOn("disc_wait", 0, r, log, <<"disconnect">>)
         ELSE CheckGoesOn("assoc_wait", 0, r, log, <<"connect">>)
    ELSE CheckEnds(CheckResult, r, log, <<>>)

\* Variant of retries_exhausted that allows one failed attempt more before the break.
retries_exhausted_one_late(r) == r > WIFI_CONNECT_RETRIES + 1

\* check_network_access line 273: retries > config.WIFI_CONNECT_RETRIES
retries_exhausted(r) == r > WIFI_CONNECT_RETRIES

\* Variant of AttemptFailed that handles an authentication error like any other.
AttemptFailed_auth_retried(kind, r, log) ==
    IF r + 1 > WIFI_CONNECT_RETRIES
    THEN CheckEnds(CheckResult, r + 1, log, <<"error">>)
    ELSE CheckGoesOn("backoff", 0, r + 1, log, <<"error", "backoff">>)

\* The except clauses of check_network_access (lines 267-276) for the exception
\* connect_wifi raised: a ValueError is raised again at once; any other exception
\* counts a retry and leaves the loop or starts the backoff.
AttemptFailed(kind, r, log) ==
    IF kind = "ValueError"
    THEN CheckEnds("ValueError", r, log, <<>>)
    ELSE IF retries_exhausted(r + 1)
    THEN CheckEnds(CheckResult, r + 1, log, <<"error">>)
    ELSE CheckGoesOn("backoff", 0, r + 1, log, <<"error", "backoff">>)

\* wait_for_dhcp with polls sleeps behind it: it returns True with a valid
\* configuration (connection_success starts its flash), sleeps again, or has used up
\* its polls and returns False (connection_error starts its flash).
DhcpPoll(polls) ==
    IF polls >= WaitTicks
    THEN CheckGoesOn("flash_err", 0, retries, check_log, <<>>)
    ELSE IF has_valid_network_config
    THEN CheckGoesOn("flash_ok", 0, retries, check_log, <<>>)
    ELSE CheckGoesOn("dhcp_wait", polls + 1, retries, check_log, <<>>)

\* What the check task leaves alone in every step but the end of a connection.
CheckKeeps == UNCHANGED <<arbVars, wlan_status, wlan_ifconfig, ntp_servers, ntp_server_index,
                          ntp_address, ntp_sync_in_progress, ntp_sync_status,
                          prtc_sync_status, ntp_last_synced_timestamp, sync_pc, sync_pass,
                          sync_attempt, sync_log, sync_result, sticky>>

\* A created check_network_access task starts running and finds no check in progress:
\* it sets the guard and enters the loop.
CheckStart ==
    /\ check_tasks > 0
    /\ ~network_check_in_progress
    /\ check_tasks' = check_tasks - 1
    /\ LoopHead(0, <<>>)
    /\ CheckKeeps

\* What a call of check_network_access leaves alone when it returns at its first line.
CheckSkipKeeps ==
    UNCHANGED <<arbVars, wlan_status, wlan_ifconfig, ntp_servers, ntp_server_index,
                ntp_address, ntp_sync_in_progress, ntp_sync_status, prtc_sync_status,
                ntp_last_synced_timestamp, sync_pc, sync_pass, sync_attempt, sync_log,
                sync_result, sticky, check_pc, check_ticks, retries, check_log,
                check_result, badauth_ended, assoc_after_badauth>>

\* Variant of CheckSkipped in which the early return runs the finally clause.
CheckSkipped_clears_guard ==
    /\ check_tasks > 0
    /\ network_check_in_progress
    /\ check_tasks' = check_tasks - 1
    /\ skip_result' = "False"
    /\ network_check_in_progress' = FALSE
    /\ CheckSkipKeeps

\* A created check_network_access task starts running while a check is in progress
\* (lines 256-258): it returns False before the try block, so the finally clause of
\* this call does not run.
CheckSkipped ==
    /\ check_tasks > 0
    /\ network_check_in_progress
    /\ check_tasks' = check_tasks - 1
    /\ skip_result' = "False"
    /\ UNCHANGED network_check_in_progress
    /\ CheckSkipKeeps

\* One poll of wait_status(CYW43_LINK_DOWN) in disconnect_wifi_if_necessary. Down, or
\* the polls used up (the returned False is not looked at): wlan.connect() is called.
\* BadAuth, Fail or NoNet: the exception is wrapped in a plain Exception and reaches
\* check_network_access.
DiscTick ==
    /\ check_pc = "disc_wait"
    /\ IF wlan_status = CYW43_LINK_DOWN
       THEN CheckGoesOn("assoc_wait", 0, retries, check_log, <<"connect">>)
       ELSE IF wlan_status \in {CYW43_LINK_BADAUTH, CYW43_LINK_FAIL, CYW43_LINK_NONET}
       THEN AttemptFailed("Exception", retries, check_log)
       ELSE IF check_ticks + 1 >= WaitTicks
       THEN CheckGoesOn("assoc_wait", 0, retries, check_log, <<"connect">>)
       ELSE CheckGoesOn("disc_wait", check_ticks + 1, retries, check_log, <<>>)
    /\ CheckKeeps
    /\ UNCHANGED check_tasks

\* One poll of wait_status(CYW43_LINK_UP) in attempt_ap_connect. Up, or the polls used
\* up (the returned False is not looked at): wait_for_dhcp starts. BadAuth: ValueError,
\* auth_error starts its flash. Fail or NoNet: Exception, connection_error starts its
\* flash.
AssocTick ==
    /\ check_pc = "assoc_wait"
    /\ IF wlan_status = CYW43_LINK_UP
       THEN DhcpPoll(0)
       ELSE IF wlan_status = CYW43_LINK_BADAUTH
       THEN CheckGoesOn("flash_auth", 0, retries, check_log, <<"badauth">>)
       ELSE IF wlan_status \in {CYW43_LINK_FAIL, CYW43_LINK_NONET}
       THEN CheckGoesOn("flash_err", 0, retries, check_log, <<>>)
       ELSE IF check_ticks + 1 >= WaitTicks
       THEN DhcpPoll(0)
       ELSE CheckGoesOn("assoc_wait", check_ticks + 1, retries, check_log, <<>>)
    /\ CheckKeeps
    /\ UNCHANGED check_tasks

\* A sleep of wait_for_dhcp is over.
DhcpTick ==
    /\ check_pc = "dhcp_wait"
    /\ DhcpPoll(check_ticks)
    /\ CheckKeeps
    /\ UNCHANGED check_tasks

\* The flash of auth_error or connection_error is over: the exception travels through
\* attempt_ap_connect and connect_wifi to check_network_access.
FlashFailed ==
    /\ check_pc \in {"flash_auth", "flash_err"}
    /\ AttemptFailed(IF check_pc = "flash_auth" THEN "ValueError" ELSE "Exception",
                     retries, check_log)
    /\ CheckKeeps
    /\ UNCHANGED check_tasks

\* The flash of connection_success is over: connect_wifi resolves the server pool when
\* none is cached (answer dns) and check_network_access returns True.
FlashSucceeded(dns) ==
    /\ check_pc = "flash_ok"
    /\ LET pool == IF ntp_servers = <<>>
                   THEN refresh_ntp_servers(Pool, has_valid_network_config, dns).pool
                   ELSE Pool
       IN /\ ntp_servers' = pool.servers
          /\ ntp_server_index' = pool.index
          /\ ntp_address' = pool.address
          /\ sticky' = IF pool = Pool THEN sticky ELSE -1
    /\ CheckEnds("True", retries, check_log, <<"success">>)
    /\ UNCHANGED <<arbVars, wlan_status, wlan_ifconfig, ntp_sync_in_progress,
                   ntp_sync_status, prtc_sync_status, ntp_last_synced_timestamp, sync_pc,
                   sync_pass, sync_attempt, sync_log, sync_result, check_tasks>>

\* network_retry_backoff is over: the loop condition is evaluated again.
BackoffDone ==
    /\ check_pc = "backoff"
    /\ LoopHead(retries, check_log)
    /\ CheckKeeps
    /\ UNCHANGED check_tasks

\* One iteration of network_monitor: with the link not Up or no valid configuration
\* and no check in progress it creates a check_network_access task. (The sync task it
\* creates when a sync is due is the sync attempt of SyncNoNetwork and SyncStart.)
MonitorPoll ==
    /\ constructed
    /\ IF (wlan_status # CYW43_LINK_UP \/ ~has_valid_network_config)
           /\ ~network_check_in_progress
       THEN check_tasks < MaxCheckTasks /\ create_check_task
       ELSE UNCHANGED check_tasks
    /\ UNCHANGED <<arbVars, wlan_status, wlan_ifconfig, ntp_servers, ntp_server_index,
                   ntp_address, ntp_sync_in_progress, ntp_sync_status, prtc_sync_status,
                   ntp_last_synced_timestamp, network_check_in_progress, sync_pc, sync_pass,
                   sync_attempt, sync_log, sync_result, sticky, wifiVars>>

\* The link manager: the monitor, the check tasks, the radio, and sync attempts that
\* find no network.
NextWifi ==
    \/ TimeSource_init(FALSE, "none") /\ UNCHANGED <<netVars, wifiVars, syncObs, otherVars>>
    \/ \E r \in WifiRadioStates :
           RadioChange(r.status, r.ip, r.dns) /\ UNCHANGED <<wifiVars, syncObs, otherVars>>
    \/ MonitorPoll /\ UNCHANGED <<syncObs, otherVars>>
    \/ SyncNoNetwork /\ SyncObsCleared /\ UNCHANGED <<wifiVars, otherVars>>
    \/ CheckStart /\ UNCHANGED <<syncObs, otherVars>>
    \/ CheckSkipped /\ UNCHANGED <<syncObs, otherVars>>
    \/ DiscTick /\ UNCHANGED <<syncObs, otherVars>>
    \/ AssocTick /\ UNCHANGED <<syncObs, otherVars>>
    \/ DhcpTick /\ UNCHANGED <<syncObs, otherVars>>
    \/ FlashFailed /\ UNCHANGED <<syncObs, otherVars>>
    \/ \E dns \in DnsAnswers : FlashSucceeded(dns) /\ UNCHANGED <<syncObs, otherVars>>
    \/ BackoffDone /\ UNCHANGED <<syncObs, otherVars>>

\* ------------------------------------------------------------------ claims C9-C10

\* How often event ev is in log.
CountOf(log, ev) == Len(SelectSeq(log, LAMBDA e : e = ev))

C10_BadAuthTerminal == ~assoc_after_badauth

\* ------------------------------------------------------------------ claims C11

\* C11: at most one reachability check runs at a time. The guard is set exactly while
\* the one check task is between its start and its end, and a call that finds the guard
\* set returns False at once: it leaves the pending tasks one fewer (it is not queued
\* again), the guard set, and the radio, the running check's position, retry counter
\* and log of disconnects and associations as they were.
C11_OneCheckAtATime ==
    /\ [](network_check_in_progress <=> check_pc # "idle")
    /\ [][(network_check_in_progress /\ check_tasks' < check_tasks) =>
             /\ skip_result' = "False"
             /\ check_tasks' = check_tasks - 1
             /\ network_check_in_progress'
             /\ UNCHANGED <<wlan_status, wlan_ifconfig, check_pc, check_ticks, retries,
                            check_log, check_result>>]_vars

\* A second call was rejected while the first check waits for the association.
C11_Witness ==
    /\ skip_result = "False"
    /\ network_check_in_progress
    /\ check_pc = "assoc_wait"
    /\ check_tasks = 0

\* ------------------------------------------------------------------ clock core

\* Refresh-loop threads of the model: start() finds a thread to run _clock_loop on
\* only when none is still executing an earlier _clock_loop.
Threads == {"core1", "core1_again"}

\* Names tests register under.
TestNames == {"x", "y"}

\* _update_displays: the names in updates, in order.
DisplaySlots == <<"hour_minute", "seconds", "day_month", "year">>

\* Seconds the RTC hardware advances by between two looks at it.
CoreClockSteps == {60}

\* Most clock steps of the RTC hardware.
MaxCoreTicks == 1

\* _set_status_display: the name of the first entry of the status list from entry i
\* on whose flag is set, and "NONE" when there is none.
RECURSIVE current_method(_, _)
current_method(table, i) ==
    IF i > Len(table) THEN "NONE"
    ELSE IF table[i].status THEN table[i].name
    ELSE current_method(table, i + 1)

NoAct == [who |-> "none", kind |-> "none", bus |-> FALSE, locked |-> FALSE,
          overlap |-> FALSE, paused |-> FALSE, resumed |-> FALSE, prev |-> <<>>,
          text |-> ""]

\* ClockCore.__init__
InitCore ==
    /\ running = FALSE
    /\ tests_running = <<>>
    /\ last_time = <<>>
    /\ i2c_lock = "free"
    /\ loop_pc = [t \in Threads |-> "none"]
    /\ loop_now = [t \in Threads |-> <<>>]
    /\ loop_paused = [t \in Threads |-> FALSE]
    /\ loop_raised = [t \in Threads |-> "none"]
    /\ loop_slot = [t \in Threads |-> 0]
    /\ display_test = "idle"
    /\ core_ticks = 0
    /\ last_act = NoAct
    /\ tick_writes = <<>>

\* What the clock core leaves alone.
CoreKeepsNetwork == UNCHANGED <<netVars, wifiVars, syncObs, dueVars, raceVars, waitVars, monVars, startVars>>

\* A time read or bus transaction made by who: bus says whether it is a bus
\* transaction; recorded with whether who holds the lock, whether a transaction of the
\* cooperative side is in progress, whether a test is registered, and, for a loop
\* thread, whether it slept in the pause before the pause check it has just passed;
\* a time read is recorded with the value of last_time it is compared with.
Act(who, kind, bus) ==
    [who |-> who, kind |-> kind, bus |-> bus, locked |-> i2c_lock = who,
     overlap |-> bus /\ display_test # "idle", paused |-> tests_running # <<>>,
     resumed |-> who \in Threads /\ loop_paused[who],
     prev |-> IF kind = "time_read" THEN last_time ELSE <<>>,
     text |-> IF kind = "status_write" THEN current_method(time_sync_status, 1) ELSE ""]

\* Whether some loop thread is inside the display update of _update_displays.
InUpdate == \E t \in Threads : loop_pc[t] \in {"write", "unlock"}

\* The refresh-loop thread a start() creates: the first invocation of _clock_loop, or
\* a later one while that has not returned.
next_thread == IF loop_pc["core1"] = "none" THEN "core1" ELSE "core1_again"

\* Variant of core1_free for a port whose _thread has no limit of one thread.
core1_free_always == TRUE

\* _thread.start_new_thread on the rp2 port: the second core runs one thread, and the
\* call raises OSError("core1 in use") until that thread's function has returned.
core1_free == \A t \in Threads : loop_pc[t] = "none"

\* How a call of start() in the current state ends.
start_outcome ==
    IF running THEN "ignored" ELSE IF core1_free THEN "started" ELSE "raised"

\* ClockCore.start(): ignored while running; else it sets running and starts a thread,
\* and the exception of start_new_thread leaves it with running set.
ClockCore_start ==
    /\ constructed
    /\ IF running
       THEN UNCHANGED <<running, loop_pc>>
       ELSE /\ running' = TRUE
            /\ IF core1_free
               THEN /\ loop_pc[next_thread] = "none"
                    /\ loop_pc' = [loop_pc EXCEPT ![next_thread] = "begin"]
               ELSE UNCHANGED loop_pc
    /\ UNCHANGED <<tests_running, last_time, i2c_lock, loop_now, loop_paused, loop_raised,
                   loop_slot, display_test, core_ticks, last_act, tick_writes>>
    /\ UNCHANGED <<arbVars, netVars, wifiVars, syncObs, dueVars, raceVars, waitVars, monVars>>

\* ClockCore.stop()
ClockCore_stop ==
    /\ running
    /\ running' = FALSE
    /\ UNCHANGED <<tests_running, last_time, i2c_lock, loop_pc, loop_now, loop_paused, loop_raised,
                   loop_slot,
                   display_test, core_ticks, last_act, tick_writes>>
    /\ UNCHANGED arbVars /\ CoreKeepsNetwork

\* ClockCore.register_test(test_name), under ClockCore.lock.
ClockCore_register_test(test_name) ==
    /\ tests_running' = IF test_name \notin Range(tests_running)
                        THEN Append(tests_running, test_name)
                        ELSE tests_running
    /\ UNCHANGED <<running, last_time, i2c_lock, loop_pc, loop_now, loop_paused, loop_raised, loop_slot,
                   display_test, core_ticks, last_act, tick_writes>>
    /\ UNCHANGED arbVars /\ CoreKeepsNetwork

\* ClockCore.unregister_test(test_name), under ClockCore.lock.
ClockCore_unregister_test(test_name) ==
    /\ tests_running' = SelectSeq(tests_running, LAMBDA n : n # test_name)
    /\ UNCHANGED <<running, last_time, i2c_lock, loop_pc, loop_now, loop_paused, loop_raised, loop_slot,
                   display_test, core_ticks, last_act, tick_writes>>
    /\ UNCHANGED arbVars /\ CoreKeepsNetwork

\* Variant of _clock_loop_should_run that lets the loop run with one test left.
clock_loop_should_run_one_left == Len(tests_running) <= 1

\* ClockCore._clock_loop_should_run, under ClockCore.lock.
clock_loop_should_run == Len(tests_running) = 0

\* What a loop step of thread t that only moves to pc leaves alone.
LoopMoves(t, pc) ==
    /\ loop_pc' = [loop_pc EXCEPT ![t] = pc]
    /\ UNCHANGED <<running, tests_running, i2c_lock, loop_now, loop_slot, display_test,
                   core_ticks, last_act, tick_writes>>
    /\ UNCHANGED arbVars /\ CoreKeepsNetwork

\* _clock_loop before the loop: last_time = None.
ClockLoopBegin(t) ==
    /\ loop_pc[t] = "begin"
    /\ last_time' = <<>>
    /\ LoopMoves(t, "top")
    /\ UNCHANGED <<loop_paused, loop_raised>>

\* Variant of the loop condition that does not look at running.
ClockLoopTop_ignores_stop(t) ==
    /\ loop_pc[t] = "top"
    /\ LoopMoves(t, IF ~clock_loop_should_run THEN "paused" ELSE "read")
    /\ loop_paused' = [loop_paused EXCEPT ![t] = @ \/ ~clock_loop_should_run]
    /\ UNCHANGED <<last_time, loop_raised>>

\* _clock_loop: the loop condition and the pause check of one iteration.
ClockLoopTop(t) ==
    /\ loop_pc[t] = "top"
    /\ LoopMoves(t, IF ~running THEN "none"
                    ELSE IF ~clock_loop_should_run THEN "paused"
                    ELSE "read")
    /\ loop_paused' = [loop_paused EXCEPT ![t] = running /\ (@ \/ ~clock_loop_should_run)]
    /\ UNCHANGED <<last_time, loop_raised>>

\* _clock_loop: sleep_ms(100) of a paused iteration is over.
ClockLoopPaused(t) ==
    /\ loop_pc[t] = "paused"
    /\ LoopMoves(t, "top")
    /\ UNCHANGED <<last_time, loop_paused, loop_raised>>

\* Whether tuple a is before tuple b, field by field from the first.
RECURSIVE BeforeFrom(_, _, _)
BeforeFrom(a, b, i) ==
    IF i > Len(a) \/ i > Len(b) THEN FALSE
    ELSE IF a[i] # b[i] THEN a[i] < b[i]
    ELSE BeforeFrom(a, b, i + 1)

Before(a, b) == BeforeFrom(a, b, 1)

\* Variant of the comparison that takes only a later value for a change.
time_changed_forward_only(now_time, last) == last = <<>> \/ Before(last, now_time)

\* _clock_loop: now_time != self.last_time
time_changed(now_time, last) == now_time # last

\* _clock_loop: now_time = time_source.get_time() and the comparison with last_time;
\* a raising read takes the loop to its exception handler.
ClockLoopRead(t, fault1, fault2) ==
    /\ loop_pc[t] = "read"
    /\ TimeSource_get_time(fault1, fault2)
    /\ LET now_time == op_result'
           bus == \E i \in DOMAIN op_trace' :
                      /\ op_trace'[i].ev = "read"
                      /\ op_trace'[i].source = "external_rtc"
                      /\ is_configured
       IN /\ last_act' = Act(t, "time_read", bus)
          /\ loop_paused' = [loop_paused EXCEPT ![t] = FALSE]
          /\ loop_raised' = [loop_raised EXCEPT ![t] = IF now_time = "raise" THEN "read"
                                                       ELSE "none"]
          /\ IF now_time = "raise"
             THEN /\ loop_pc' = [loop_pc EXCEPT ![t] = "error"]
                  /\ UNCHANGED <<last_time, loop_now>>
             ELSE IF time_changed(now_time, last_time)
             THEN /\ last_time' = now_time
                  /\ loop_now' = [loop_now EXCEPT ![t] = now_time]
                  /\ loop_pc' = [loop_pc EXCEPT ![t] = "lock"]
             ELSE /\ loop_pc' = [loop_pc EXCEPT ![t] = "sleep"]
                  /\ UNCHANGED <<last_time, loop_now>>
    /\ UNCHANGED <<running, tests_running, i2c_lock, loop_slot, display_test, core_ticks,
                   tick_writes>>
    /\ CoreKeepsNetwork

\* _update_displays: with self.i2c_lock is entered.
UpdateAcquire(t) ==
    /\ loop_pc[t] = "lock"
    /\ i2c_lock = "free"
    /\ i2c_lock' = t
    /\ loop_pc' = [loop_pc EXCEPT ![t] = "write"]
    /\ loop_slot' = [loop_slot EXCEPT ![t] = 1]
    /\ tick_writes' = <<>>
    /\ UNCHANGED <<running, tests_running, last_time, loop_now, loop_paused, loop_raised,
                   display_test, core_ticks,
                   last_act>>
    /\ UNCHANGED arbVars /\ CoreKeepsNetwork

\* Variant of the display write that takes the lock for each write only: the lock is
\* free again after the write.
UpdateWrite_lock_per_write(t, outcome) ==
    /\ loop_pc[t] = "write"
    /\ last_act' = Act(t, "display_write", TRUE)
    /\ i2c_lock' = "free"
    /\ IF outcome = "escapes"
       THEN /\ loop_pc' = [loop_pc EXCEPT ![t] = "error"]
            /\ loop_slot' = [loop_slot EXCEPT ![t] = 0]
            /\ tick_writes' = <<>>
       ELSE /\ tick_writes' = Append(tick_writes,
                                     [who |-> t, slot |-> DisplaySlots[loop_slot[t]]])
            /\ IF loop_slot[t] < Len(DisplaySlots)
               THEN /\ loop_slot' = [loop_slot EXCEPT ![t] = loop_slot[t] + 1]
                    /\ UNCHANGED loop_pc
               ELSE /\ loop_pc' = [loop_pc EXCEPT ![t] = "unlock"]
                    /\ UNCHANGED loop_slot

\* _update_displays: display.print_text for the next entry of updates. outcome "ok":
\* the write succeeds; "fails": it raises and the handler logs it; "escapes": an
\* exception leaves the with block, which releases the lock, and reaches the handler of
\* _clock_loop.
UpdateWrite(t, outcome) ==
    /\ loop_pc[t] = "write"
    /\ last_act' = Act(t, "display_write", TRUE)
    /\ IF outcome = "escapes"
       THEN /\ i2c_lock' = "free"
            /\ loop_pc' = [loop_pc EXCEPT ![t] = "error"]
            /\ loop_slot' = [loop_slot EXCEPT ![t] = 0]
            /\ tick_writes' = <<>>
       ELSE /\ tick_writes' = Append(tick_writes,
                                     [who |-> t, slot |-> DisplaySlots[loop_slot[t]]])
            /\ UNCHANGED i2c_lock
            /\ IF loop_slot[t] < Len(DisplaySlots)
               THEN /\ loop_slot' = [loop_slot EXCEPT ![t] = loop_slot[t] + 1]
                    /\ UNCHANGED loop_pc
               ELSE /\ loop_pc' = [loop_pc EXCEPT ![t] = "unlock"]
                    /\ UNCHANGED loop_slot

\* One display write of _update_displays by thread t.
UpdateStep(t, outcome) ==
    /\ UpdateWrite(t, outcome)
    /\ loop_raised' = IF outcome = "escapes" THEN [loop_raised EXCEPT ![t] = "write"]
                      ELSE loop_raised
    /\ UNCHANGED <<running, tests_running, last_time, loop_now, loop_paused, display_test,
                   core_ticks>>
    /\ UNCHANGED arbVars /\ CoreKeepsNetwork

\* _update_displays: the with block is left after the last entry; then the test
\* second % 5 == 0 of _clock_loop.
UpdateRelease(t) ==
    /\ loop_pc[t] = "unlock"
    /\ i2c_lock' = "free"
    /\ loop_pc' = [loop_pc EXCEPT ![t] = IF loop_now[t][6] % 5 = 0 THEN "status" ELSE "sleep"]
    /\ loop_slot' = [loop_slot EXCEPT ![t] = 0]
    /\ tick_writes' = <<>>
    /\ UNCHANGED <<running, tests_running, last_time, loop_now, loop_paused, loop_raised,
                   display_test, core_ticks,
                   last_act>>
    /\ UNCHANGED arbVars /\ CoreKeepsNetwork

\* _set_status_display: with self.i2c_lock is entered.
StatusAcquire(t) ==
    /\ loop_pc[t] = "status"
    /\ i2c_lock = "free"
    /\ i2c_lock' = t
    /\ loop_pc' = [loop_pc EXCEPT ![t] = "status_write"]
    /\ UNCHANGED <<running, tests_running, last_time, loop_now, loop_paused, loop_raised, loop_slot,
                   display_test,
                   core_ticks, last_act, tick_writes>>
    /\ UNCHANGED arbVars /\ CoreKeepsNetwork

\* _set_status_display: print_text on the status display, then the with block is left.
StatusWrite(t) ==
    /\ loop_pc[t] = "status_write"
    /\ last_act' = Act(t, "status_write", TRUE)
    /\ i2c_lock' = "free"
    /\ loop_pc' = [loop_pc EXCEPT ![t] = "sleep"]
    /\ UNCHANGED <<running, tests_running, last_time, loop_now, loop_paused, loop_raised, loop_slot,
                   display_test,
                   core_ticks, tick_writes>>
    /\ UNCHANGED arbVars /\ CoreKeepsNetwork

\* _clock_loop: sleep_ms(50) at the end of an iteration is over.
ClockLoopSleep(t) ==
    /\ loop_pc[t] = "sleep"
    /\ LoopMoves(t, "top")
    /\ UNCHANGED <<last_time, loop_paused, loop_raised>>

\* _clock_loop: sleep_ms(1000) of the exception handler is over.
ClockLoopBackoff(t) ==
    /\ loop_pc[t] = "error"
    /\ LoopMoves(t, "top")
    /\ UNCHANGED <<last_time, loop_paused, loop_raised>>

\* Steps of an iteration, other than the time read and the display writes, at which
\* an exception may be raised: the pause check, the status lookup and the status write.
RaisingSteps == {"top", "status", "status_write"}

\* Variant in which the exception is not handled and ends the thread.
ClockLoopRaises_ends_thread(t) ==
    /\ loop_pc[t] \in RaisingSteps
    /\ loop_pc[t] = "top" => running
    /\ loop_raised' = [loop_raised EXCEPT ![t] = loop_pc[t]]
    /\ loop_pc' = [loop_pc EXCEPT ![t] = "none"]
    /\ i2c_lock' = IF i2c_lock = t THEN "free" ELSE i2c_lock
    /\ UNCHANGED <<running, tests_running, last_time, loop_now, loop_paused, loop_slot,
                   display_test, core_ticks, last_act, tick_writes>>
    /\ UNCHANGED arbVars /\ CoreKeepsNetwork

\* _clock_loop: an exception is raised inside the try block at one of those steps; a
\* with block it leaves releases the lock, and the handler of _clock_loop is reached.
ClockLoopRaises(t) ==
    /\ loop_pc[t] \in RaisingSteps
    /\ loop_pc[t] = "top" => running
    /\ loop_raised' = [loop_raised EXCEPT ![t] = loop_pc[t]]
    /\ loop_pc' = [loop_pc EXCEPT ![t] = "error"]
    /\ i2c_lock' = IF i2c_lock = t THEN "free" ELSE i2c_lock
    /\ UNCHANGED <<running, tests_running, last_time, loop_now, loop_paused, loop_slot,
                   display_test, core_ticks, last_act, tick_writes>>
    /\ UNCHANGED arbVars /\ CoreKeepsNetwork

\* async_sync_rtc_from_ntp on the cooperative side sets machine.RTC from a decoded
\* server time.
McuRtcSet(reply) ==
    /\ LET t == DecodeReply(reply)
       IN mcu_rtc' = <<t[1], t[2], t[3], t[7], t[4], t[5], t[6], 0>>
    /\ mcu_rtc' # mcu_rtc
    /\ UNCHANGED <<constructed, time_sync_status, external_rtc_RTC, time_source,
                   selected_time_source_name, on_time_sync, ds3231_regs, op, op_arg,
                   op_trace, op_result>>
    /\ UNCHANGED coreVars /\ CoreKeepsNetwork

\* Server times machine.RTC is set from while the clock core runs.
CoreReplies == { [days |-> 45723, sod |-> 7199] }

\* Another user of the lock handed to ClockCore.__init__ takes it.
HolderAcquire ==
    /\ i2c_lock = "free"
    /\ i2c_lock' = "holder"
    /\ UNCHANGED <<running, tests_running, last_time, loop_pc, loop_now, loop_paused, loop_raised,
                   loop_slot,
                   display_test, core_ticks, last_act, tick_writes>>
    /\ UNCHANGED arbVars /\ CoreKeepsNetwork

\* That user writes to the bus and releases the lock.
HolderWrite ==
    /\ i2c_lock = "holder"
    /\ i2c_lock' = "free"
    /\ last_act' = Act("holder", "holder_write", TRUE)
    /\ tick_writes' = IF InUpdate
                      THEN Append(tick_writes, [who |-> "holder", slot |-> "none"])
                      ELSE tick_writes
    /\ UNCHANGED <<running, tests_running, last_time, loop_pc, loop_now, loop_paused, loop_raised,
                   loop_slot,
                   display_test, core_ticks>>
    /\ UNCHANGED arbVars /\ CoreKeepsNetwork

\* Display.async_display_test: a draw() begins its bus write; no lock is taken.
DisplayTestDraw ==
    /\ display_test = "idle"
    /\ display_test' = "draw"
    /\ last_act' = [Act("display_test", "test_write", TRUE) EXCEPT !.overlap = FALSE]
    /\ UNCHANGED <<running, tests_running, last_time, i2c_lock, loop_pc, loop_now,
                   loop_paused, loop_raised,
                   loop_slot, core_ticks, tick_writes>>
    /\ UNCHANGED arbVars /\ CoreKeepsNetwork

\* The bus write of that draw() is complete.
DisplayTestDrawn ==
    /\ display_test = "draw"
    /\ display_test' = "idle"
    /\ UNCHANGED <<running, tests_running, last_time, i2c_lock, loop_pc, loop_now,
                   loop_paused, loop_raised,
                   loop_slot, core_ticks, last_act, tick_writes>>
    /\ UNCHANGED arbVars /\ CoreKeepsNetwork

\* datetime advanced by step seconds, as an 8-tuple of machine.RTC.
Advance(datetime, step) ==
    LET s == time(datetime) + step
        gm == gmtime(s \div 86400, s % 86400)
    IN <<gm[1], gm[2], gm[3], gm[7], gm[4], gm[5], gm[6], 0>>

\* The RTC hardware runs on by step seconds: machine.RTC, and the DS3231 when present.
HardwareTick(step) ==
    /\ core_ticks < MaxCoreTicks
    /\ core_ticks' = core_ticks + 1
    /\ mcu_rtc' = Advance(mcu_rtc, step)
    /\ IF is_configured
       THEN LET r == DS3231_read_time(ds3231_regs)
                a == Advance(<<r[1], r[2], r[3], 0, r[4], r[5], r[6], 0>>, step)
            IN ds3231_regs' = DS3231_set_time(a[1], a[2], a[3], a[5], a[6], a[7])
       ELSE UNCHANGED ds3231_regs
    /\ UNCHANGED <<constructed, time_sync_status, external_rtc_RTC, time_source,
                   selected_time_source_name, on_time_sync, op, op_arg, op_trace, op_result>>
    /\ UNCHANGED <<running, tests_running, last_time, i2c_lock, loop_pc, loop_now,
                   loop_paused, loop_raised,
                   loop_slot, display_test, last_act, tick_writes>>
    /\ CoreKeepsNetwork

\* The clock core: its API called from the cooperative side, the steps of the refresh
\* loop, the other users of the bus and the RTC hardware.
NextCore ==
    \/ \E found \in BOOLEAN :
           TimeSource_init(found, "none") /\ UNCHANGED coreVars /\ CoreKeepsNetwork
    \/ ClockCore_start /\ UNCHANGED startVars
    \/ ClockCore_stop
    \/ \E n \in TestNames : ClockCore_register_test(n)
    \/ \E n \in TestNames : ClockCore_unregister_test(n)
    \/ \E t \in Threads : ClockLoopBegin(t)
    \/ \E t \in Threads : ClockLoopTop(t)
    \/ \E t \in Threads : ClockLoopPaused(t)
    \/ \E t \in Threads, fault1 \in BOOLEAN : ClockLoopRead(t, fault1, FALSE)
    \/ \E t \in Threads : UpdateAcquire(t)
    \/ \E t \in Threads, outcome \in {"ok", "fails", "escapes"} : UpdateStep(t, outcome)
    \/ \E t \in Threads : UpdateRelease(t)
    \/ \E t \in Threads : StatusAcquire(t)
    \/ \E t \in Threads : StatusWrite(t)
    \/ \E t \in Threads : ClockLoopSleep(t)
    \/ \E t \in Threads : ClockLoopBackoff(t)
    \/ HolderAcquire
    \/ HolderWrite
    \/ DisplayTestDraw
    \/ DisplayTestDrawn
    \/ \E step \in CoreClockSteps : HardwareTick(step)

\* Names tests register under while the refresh loop is alone on the bus.
LoopTestNames == {"x"}

\* The refresh loop alone on the bus: its API, its steps with an exception possible at
\* each of them, the RTC hardware and machine.RTC being set from a server time.
NextLoop ==
    \/ \E found \in BOOLEAN :
           TimeSource_init(found, "none") /\ UNCHANGED coreVars /\ CoreKeepsNetwork
    \/ ClockCore_start /\ UNCHANGED startVars
    \/ ClockCore_stop
    \/ \E n \in LoopTestNames : ClockCore_register_test(n)
    \/ \E n \in LoopTestNames : ClockCore_unregister_test(n)
    \/ \E t \in Threads : ClockLoopBegin(t)
    \/ \E t \in Threads : ClockLoopTop(t)
    \/ \E t \in Threads : ClockLoopPaused(t)
    \/ \E t \in Threads, fault1 \in BOOLEAN : ClockLoopRead(t, fault1, FALSE)
    \/ \E t \in Threads : UpdateAcquire(t)
    \/ \E t \in Threads, outcome \in {"ok", "fails", "escapes"} : UpdateStep(t, outcome)
    \/ \E t \in Threads : UpdateRelease(t)
    \/ \E t \in Threads : StatusAcquire(t)
    \/ \E t \in Threads : StatusWrite(t)
    \/ \E t \in Threads : ClockLoopSleep(t)
    \/ \E t \in Threads : ClockLoopBackoff(t)
    \/ \E t \in Threads : ClockLoopRaises(t)
    \/ \E step \in CoreClockSteps : HardwareTick(step)
    \/ \E reply \in CoreReplies : McuRtcSet(reply)

\* The refresh loop with the outcome of each start() recorded.
NextStart ==
    \/ \E found \in BOOLEAN :
           TimeSource_init(found, "none") /\ UNCHANGED coreVars /\ CoreKeepsNetwork
    \/ ClockCore_start /\ start_result' = start_outcome
    \/ ClockCore_stop
    \/ \E n \in LoopTestNames : ClockCore_register_test(n)
    \/ \E n \in LoopTestNames : ClockCore_unregister_test(n)
    \/ \E t \in Threads : ClockLoopBegin(t)
    \/ \E t \in Threads : ClockLoopTop(t)
    \/ \E t \in Threads : ClockLoopPaused(t)
    \/ \E t \in Threads, fault1 \in BOOLEAN : ClockLoopRead(t, fault1, FALSE)
    \/ \E t \in Threads : UpdateAcquire(t)
    \/ \E t \in Threads, outcome \in {"ok", "fails", "escapes"} : UpdateStep(t, outcome)
    \/ \E t \in Threads : UpdateRelease(t)
    \/ \E t \in Threads : StatusAcquire(t)
    \/ \E t \in Threads : StatusWrite(t)
    \/ \E t \in Threads : ClockLoopSleep(t)
    \/ \E t \in Threads : ClockLoopBackoff(t)
    \/ \E t \in Threads : ClockLoopRaises(t)
    \/ \E step \in CoreClockSteps : HardwareTick(step)
    \/ \E reply \in CoreReplies : McuRtcSet(reply)

\* ------------------------------------------------------------------ arbiter on two cores

NoSel == [name |-> "None", source |-> "None"]

\* No get_time and no checker iteration is in progress.
InitRace ==
    /\ get_pc = "idle"
    /\ get_sel = NoSel
    /\ chk_pc = "idle"
    /\ chk_sel = NoSel
    /\ get_seen = "None"

\* What a step of either side leaves alone besides the fields it names.
RaceKeeps ==
    /\ UNCHANGED <<constructed, external_rtc_RTC, on_time_sync, mcu_rtc, ds3231_regs, op,
                   op_arg, op_trace, op_result>>
    /\ UNCHANGED <<netVars, wifiVars, syncObs, dueVars, coreVars, waitVars, monVars, startVars>>

\* get_time on the refresh-loop core: self.time_source.get_time() in the first try;
\* fault: the bus transfer fails.
GetTimeRead(fault) ==
    /\ constructed
    /\ get_pc = "idle"
    /\ get_seen' = time_source
    /\ get_pc' = IF Source_get_time(time_source, fault).ok THEN "idle" ELSE "scan"
    /\ UNCHANGED <<get_sel, chk_pc, chk_sel, time_sync_status, time_source,
                   selected_time_source_name>>
    /\ RaceKeeps

\* get_time: update_time_source() reads the status table and chooses.
GetTimeScan ==
    /\ get_pc = "scan"
    /\ get_sel' = update_time_source(time_sync_status, is_configured)
    /\ get_pc' = "store"
    /\ UNCHANGED <<chk_pc, chk_sel, get_seen, time_sync_status, time_source,
                   selected_time_source_name>>
    /\ RaceKeeps

\* select_time_source: self.time_source = source.
GetTimeStore ==
    /\ get_pc = "store"
    /\ time_source' = get_sel.source
    /\ get_pc' = "name"
    /\ UNCHANGED <<get_sel, chk_pc, chk_sel, get_seen, time_sync_status,
                   selected_time_source_name>>
    /\ RaceKeeps

\* select_time_source: the name is compared and stored.
GetTimeName ==
    /\ get_pc = "name"
    /\ selected_time_source_name' = get_sel.name
    /\ get_pc' = "retry"
    /\ UNCHANGED <<get_sel, chk_pc, chk_sel, get_seen, time_sync_status, time_source>>
    /\ RaceKeeps

\* get_time: self.time_source.get_time() in the second try, then it returns or raises.
GetTimeRetry ==
    /\ get_pc = "retry"
    /\ get_seen' = time_source
    /\ get_pc' = "idle"
    /\ get_sel' = NoSel
    /\ UNCHANGED <<chk_pc, chk_sel, time_sync_status, time_source,
                   selected_time_source_name>>
    /\ RaceKeeps

\* async_check_time_sync_status: set_time_sync_status("NTP", ntp_status).
CheckerNtp(ntp_status) ==
    /\ constructed
    /\ chk_pc = "idle"
    /\ time_sync_status' = set_time_sync_status(time_sync_status, "NTP", ntp_status)
    /\ chk_pc' = "prtc"
    /\ UNCHANGED <<get_pc, get_sel, chk_sel, get_seen, time_source,
                   selected_time_source_name>>
    /\ RaceKeeps

\* async_check_time_sync_status: set_time_sync_status("PRTC", prtc_status).
CheckerPrtc(prtc_status) ==
    /\ chk_pc = "prtc"
    /\ time_sync_status' = set_time_sync_status(time_sync_status, "PRTC", prtc_status)
    /\ chk_pc' = "scan"
    /\ UNCHANGED <<get_pc, get_sel, chk_sel, get_seen, time_source,
                   selected_time_source_name>>
    /\ RaceKeeps

\* async_check_time_sync_status: update_time_source() reads the table and chooses.
CheckerScan ==
    /\ chk_pc = "scan"
    /\ chk_sel' = update_time_source(time_sync_status, is_configured)
    /\ chk_pc' = "store"
    /\ UNCHANGED <<get_pc, get_sel, get_seen, time_sync_status, time_source,
                   selected_time_source_name>>
    /\ RaceKeeps

\* select_time_source: self.time_source = source.
CheckerStore ==
    /\ chk_pc = "store"
    /\ time_source' = chk_sel.source
    /\ chk_pc' = "name"
    /\ UNCHANGED <<get_pc, get_sel, chk_sel, get_seen, time_sync_status,
                   selected_time_source_name>>
    /\ RaceKeeps

\* select_time_source: the name is compared and stored; the iteration sleeps.
CheckerName ==
    /\ chk_pc = "name"
    /\ selected_time_source_name' = chk_sel.name
    /\ chk_pc' = "idle"
    /\ chk_sel' = NoSel
    /\ UNCHANGED <<get_pc, get_sel, get_seen, time_sync_status, time_source>>
    /\ RaceKeeps

\* The arbiter used by the refresh loop on one core and the periodic checker on the
\* other, with no lock between them.
NextRace ==
    \/ \E found \in BOOLEAN :
           TimeSource_init(found, "none")
               /\ UNCHANGED <<netVars, wifiVars, syncObs, dueVars, coreVars, raceVars, waitVars, monVars, startVars>>
    \/ \E fault \in BOOLEAN : GetTimeRead(fault)
    \/ GetTimeScan
    \/ GetTimeStore
    \/ GetTimeName
    \/ GetTimeRetry
    \/ \E ntp_status \in BOOLEAN : CheckerNtp(ntp_status)
    \/ \E prtc_status \in BOOLEAN : CheckerPrtc(prtc_status)
    \/ CheckerScan
    \/ CheckerStore
    \/ CheckerName

\* ------------------------------------------------------------------ resync scheduling

\* Variant of the interval check of WirelessNetwork.__init__ that keeps the configured
\* value as it is.
effective_interval_unclamped(configured) == configured

\* WirelessNetwork.__init__: the interval it stores, the configured value or 60 when
\* that is below 60.
effective_interval(configured) == IF configured < 60 THEN 60 ELSE configured

\* Values of config.NTP_SYNC_INTERVAL_SECONDS the scheduling model is constructed with.
ConfigIntervals == {30, 60, 90}

\* Longest time the clock runs on after boot or after a sync, in seconds.
MaxElapsed == 92

\* State after WirelessNetwork.__init__ with the configured interval.
InitDue(configured) ==
    /\ config_NTP_SYNC_INTERVAL_SECONDS = configured
    /\ NTP_SYNC_INTERVAL_SECONDS = effective_interval(configured)
    /\ due_call = [called |-> FALSE, now |-> 0, last |-> 0, due |-> FALSE]

\* Seconds that pass on machine.RTC between two looks at it.
ClockSteps == {30, 31}

\* step seconds pass on machine.RTC.
RtcTick(step) ==
    /\ IF ntp_last_synced_timestamp = 0
       THEN time(mcu_rtc) + step <= time(McuRtcAtBoot) + MaxElapsed
       ELSE time(mcu_rtc) + step <= ntp_last_synced_timestamp + MaxElapsed
    /\ LET s == time(mcu_rtc) + step
           gm == gmtime(s \div 86400, s % 86400)
       IN mcu_rtc' = <<gm[1], gm[2], gm[3], gm[7], gm[4], gm[5], gm[6], 0>>
    /\ UNCHANGED <<constructed, time_sync_status, external_rtc_RTC, time_source,
                   selected_time_source_name, on_time_sync, ds3231_regs, op, op_arg,
                   op_trace, op_result>>
    /\ UNCHANGED <<netVars, wifiVars, syncObs, dueVars, coreVars, raceVars, waitVars, monVars, startVars>>

\* A call of WirelessNetwork.check_ntp_sync_needed().
WirelessNetwork_check_ntp_sync_needed ==
    /\ LET now == time(mcu_rtc)
           due == IF ntp_last_synced_timestamp = 0 THEN TRUE
                  ELSE IF (now - ntp_last_synced_timestamp) > NTP_SYNC_INTERVAL_SECONDS
                       THEN TRUE
                       ELSE FALSE
       IN due_call' = [called |-> TRUE, now |-> now, last |-> ntp_last_synced_timestamp,
                       due |-> due]
    /\ UNCHANGED <<arbVars, netVars, wifiVars, syncObs, config_NTP_SYNC_INTERVAL_SECONDS,
                   NTP_SYNC_INTERVAL_SECONDS, coreVars, raceVars, waitVars, monVars, startVars>>

\* State after construction with one of the configured intervals and the clock at boot.
InitSchedule ==
    /\ InitArbiter
    /\ InitNetwork
    /\ InitCore
    /\ InitRace
    /\ InitMonitor
    /\ \E configured \in ConfigIntervals : InitDue(configured)

\* The resync schedule: the clock runs, syncs succeed, and the due check is made.
NextDue ==
    \/ TimeSource_init(FALSE, "none") /\ UNCHANGED <<netVars, wifiVars, syncObs, dueVars, coreVars, raceVars, waitVars, monVars, startVars>>
    \/ RadioChange(CYW43_LINK_UP, "192.168.1.2", "192.168.1.1")
           /\ UNCHANGED <<wifiVars, syncObs, dueVars, coreVars, raceVars, waitVars, monVars, startVars>>
    \/ SyncStart /\ SyncObsCleared /\ UNCHANGED <<wifiVars, dueVars, coreVars, raceVars, waitVars, monVars, startVars>>
    \/ \E reply \in NtpReplies : SyncResponse(reply, FALSE) /\ UNCHANGED <<wifiVars, dueVars, coreVars, raceVars, waitVars, monVars, startVars>>
    \/ \E step \in ClockSteps : RtcTick(step)
    \/ WirelessNetwork_check_ntp_sync_needed

\* ------------------------------------------------------------------ claims C16

C17_NoLoopActWhileRegistered ==
    last_act.who \in Threads => ~last_act.paused

\* C18: a pause check of the running loop passes exactly when the registry is empty:
\* with a test still registered the loop goes to its pause sleep, with none it goes on
\* to read the time; a read that returns a value other than the last rendered one goes
\* on to the display update; and a loop that sleeps in the pause with the registry
\* empty and the loop running reaches the time read, unless a test is registered or
\* the loop is stopped before its next check.
C18_ResumesWhenRegistryEmpty ==
    /\ [][ \A t \in Threads :
               (loop_pc[t] = "top" /\ loop_pc'[t] # "top") =>
                   loop_pc'[t] = IF ~running THEN "none"
                                 ELSE IF tests_running # <<>> THEN "paused"
                                 ELSE "read" ]_vars
    /\ [][ \A t \in Threads :
               (loop_pc[t] = "read" /\ loop_pc'[t] # "read") =>
                   /\ last_act'.who = t /\ last_act'.kind = "time_read"
                   /\ (op_result' # "raise" /\ op_result' # last_time) =>
                          loop_pc'[t] = "lock" /\ last_time' = op_result' ]_vars
    /\ \A t \in Threads :
           (loop_pc[t] = "paused" /\ tests_running = <<>> /\ running)
               ~> (loop_pc[t] = "read" \/ tests_running # <<>> \/ ~running)

\* C18 witness: the loop slept in the pause, passed its next pause check with the
\* registry empty, read a changed time and is about to redraw it.
C18_Witness ==
    \E t \in Threads :
        /\ loop_pc[t] = "lock"
        /\ last_act.who = t
        /\ last_act.kind = "time_read"
        /\ last_act.resumed
        /\ ~last_act.paused
        /\ last_time = loop_now[t]

\* C19: while a loop thread is in the display update it holds the lock, and the bus
\* writes made by users of the lock since it entered are its own, one per display in
\* the order of the update, with no write of another holder among them; outside the
\* display update and the status write the thread does not hold the lock, also after a
\* failing write or an exception that left the update.
C19_LockHeldAcrossUpdate ==
    \A t \in Threads :
        /\ loop_pc[t] \in {"write", "unlock"} =>
               /\ i2c_lock = t
               /\ LET done == IF loop_pc[t] = "unlock" THEN Len(DisplaySlots)
                              ELSE loop_slot[t] - 1
                  IN tick_writes = [i \in 1..done |-> [who |-> t, slot |-> DisplaySlots[i]]]
        /\ loop_pc[t] \notin {"write", "unlock", "status_write"} => i2c_lock # t

\* C19 witness: all four displays were written under the lock, which is still held.
C19_Witness ==
    \E t \in Threads :
        /\ loop_pc[t] = "unlock"
        /\ Len(tick_writes) = Len(DisplaySlots)
        /\ i2c_lock = t
        /\ last_act.who = t
        /\ last_act.locked

\* C20 as stated: every bus transaction is made by a holder of the lock and overlaps
\* no transaction of the other side.
C20_EveryTransactionLocked ==
    last_act.bus => last_act.locked /\ ~last_act.overlap

\* ------------------------------------------------------------------ claims C21

\* C21 as stated: every read of get_time calls one of the two RTC objects, and
\* whenever neither a get_time nor a checker iteration is in progress the selected
\* device and the recorded name refer to the same source.
C21_SelectionNeverTorn ==
    /\ get_seen \in {"None", "rtc", "external_rtc"}
    /\ (constructed /\ get_pc = "idle" /\ chk_pc = "idle") =>
           \/ time_source = "external_rtc" /\ selected_time_source_name = "RTC"
           \/ time_source = "rtc" /\ selected_time_source_name = "PRTC"

\* ------------------------------------------------------------------ claims C22-C24

\* Positions of a loop thread in the part of an iteration that redraws.
RedrawSteps == {"lock", "write", "unlock", "status", "status_write"}

C23_RedrawIffChanged ==
    /\ [][ \A t \in Threads :
               (loop_pc[t] = "read" /\ loop_pc'[t] # "read") =>
                   IF op_result' = "raise" THEN loop_pc'[t] = "error"
                   ELSE IF op_result' # last_time
                        THEN loop_pc'[t] = "lock" /\ last_time' = op_result'
                        ELSE loop_pc'[t] = "sleep" /\ last_time' = last_time ]_vars
    /\ [](\A t \in Threads : loop_pc[t] \in RedrawSteps => loop_now[t] = last_time)

\* C23 witness: a read returned a value before the last rendered one and the loop is
\* about to redraw it.
C23_Witness ==
    \E t \in Threads :
        /\ loop_pc[t] = "lock"
        /\ last_act.who = t
        /\ last_act.kind = "time_read"
        /\ last_act.prev # <<>>
        /\ Before(loop_now[t], last_act.prev)

\* C24: once running is cleared, a loop thread at the loop condition ends and starts
\* no further iteration, a thread elsewhere in its iteration does not end there, and
\* every thread ends unless start() sets running again.
C24_StopEndsLoop ==
    /\ [][ \A t \in Threads :
               (~running /\ ~running' /\ loop_pc'[t] # loop_pc[t]) =>
                   IF loop_pc[t] = "top" THEN loop_pc'[t] = "none"
                   ELSE loop_pc'[t] # "none" ]_vars
    /\ \A t \in Threads : (~running /\ loop_pc[t] # "none") ~> (loop_pc[t] = "none" \/ running)

\* C24 witness: the loop thread has read the time and written to the bus and has
\* ended after stop().
C24_Witness ==
    \E t \in Threads :
        /\ ~running
        /\ loop_pc[t] = "none"
        /\ last_act.who = t
        /\ last_act.bus

\* ------------------------------------------------------------------ bounded waits

\* Polls of the response wait of async_get_timestamp_from_ntp before its deadline:
\* timeout_ms / the 0.1 s sleep after each recvfrom that found nothing.
ResponsePolls == 2

\* What wlan.status() and wlan.ifconfig() show while the waits are followed.
WaitRadioStates ==
    { [status |-> CYW43_LINK_UP, ip |-> "192.168.1.2", dns |-> "192.168.1.1"],
      [status |-> CYW43_LINK_NOIP, ip |-> "0.0.0.0", dns |-> "0.0.0.0"],
      [status |-> CYW43_LINK_DOWN, ip |-> "0.0.0.0", dns |-> "0.0.0.0"] }

\* Outcomes of getaddrinfo() while the waits are followed: an exception, two hosts.
WaitDnsAnswers == { [raise |-> TRUE, addrinfo |-> <<>>],
                    [raise |-> FALSE, addrinfo |-> <<"ip2", "ip1">>] }

\* The DNS refreshes of the sync task got one of those answers.
DnsWithin ==
    \A i \in DOMAIN sync_log' :
        sync_log'[i].ev = "refresh" => sync_log'[i].dns \in WaitDnsAnswers

\* What every step but a poll of the response wait leaves of the sync task's wait.
WaitOver == sync_ticks' = 0

\* Variant of SyncPoll in which the loop does not look at the time that has passed.
SyncPoll_no_deadline ==
    /\ sync_pc = "wait"
    /\ sync_ticks' = sync_ticks
    /\ UNCHANGED <<arbVars, netVars, wifiVars, syncObs, dueVars, coreVars, raceVars, monVars, startVars>>

\* async_get_timestamp_from_ntp lines 399-407: recvfrom finds no datagram (OSError)
\* before the deadline and the task sleeps 0.1 s.
SyncPoll ==
    /\ sync_pc = "wait"
    /\ sync_ticks < ResponsePolls
    /\ sync_ticks' = sync_ticks + 1
    /\ UNCHANGED <<arbVars, netVars, wifiVars, syncObs, dueVars, coreVars, raceVars, monVars, startVars>>

\* The deadline of the response wait has passed: the while loop is left with no
\* timestamp and the for loop goes on.
SyncTimeout ==
    /\ sync_ticks = ResponsePolls
    /\ SyncServerFails
    /\ WaitOver

\* A step of the check_network_access task.
CheckTaskStep ==
    \/ CheckStart
    \/ DiscTick
    \/ AssocTick
    \/ DhcpTick
    \/ FlashFailed
    \/ \E dns \in WaitDnsAnswers : FlashSucceeded(dns)
    \/ BackoffDone

\* The link manager and the time client with their waits counted in polls. Check
\* tasks are created by a sync attempt that finds no network, one at a time.
NextWaits ==
    \/ TimeSource_init(FALSE, "none") /\ UNCHANGED <<netVars, wifiVars, syncObs, otherVars>>
    \/ \E r \in WaitRadioStates :
           RadioChange(r.status, r.ip, r.dns) /\ UNCHANGED <<wifiVars, syncObs, otherVars>>
    \/ CheckStart /\ UNCHANGED <<syncObs, otherVars>>
    \/ DiscTick /\ UNCHANGED <<syncObs, otherVars>>
    \/ AssocTick /\ UNCHANGED <<syncObs, otherVars>>
    \/ DhcpTick /\ UNCHANGED <<syncObs, otherVars>>
    \/ FlashFailed /\ UNCHANGED <<syncObs, otherVars>>
    \/ \E dns \in WaitDnsAnswers : FlashSucceeded(dns) /\ UNCHANGED <<syncObs, otherVars>>
    \/ BackoffDone /\ UNCHANGED <<syncObs, otherVars>>
    \/ check_tasks = 0 /\ SyncNoNetwork /\ SyncObsCleared /\ UNCHANGED <<wifiVars, otherVars>>
    \/ SyncStart /\ DnsWithin /\ SyncObsCleared /\ WaitOver
           /\ UNCHANGED <<wifiVars, dueVars, coreVars, raceVars, monVars, startVars>>
    \/ SyncPoll
    \/ SyncTimeout /\ DnsWithin /\ UNCHANGED <<wifiVars, syncObs, dueVars, coreVars, raceVars, monVars, startVars>>
    \/ \E reply \in CoreReplies :
           SyncResponse(reply, FALSE) /\ WaitOver
               /\ UNCHANGED <<wifiVars, dueVars, coreVars, raceVars, monVars, startVars>>

\* ------------------------------------------------------------------ claims C25-C27

\* C25: every reachability check and every sync attempt that has started ends,
\* whatever the radio, DHCP and the servers do: the polls of the association, DHCP and
\* response waits and the retries stay within their bounds, a check in progress reaches
\* its end and a sync waiting for a response reaches its end.
C25_WaitsTerminate ==
    /\ [](/\ check_ticks <= WaitTicks
          /\ sync_ticks <= ResponsePolls
          /\ retries <= WIFI_CONNECT_RETRIES + 1)
    /\ (check_pc # "idle") ~> (check_pc = "idle")
    /\ (sync_pc # "idle") ~> (sync_pc = "idle")

\* C25 witness: a check has given up after its retries and the retry pass of a sync
\* has polled for a response up to its deadline.
C25_Witness ==
    /\ check_pc = "idle"
    /\ check_result = "False"
    /\ retries = WIFI_CONNECT_RETRIES + 1
    /\ sync_pc = "wait"
    /\ sync_pass = 2
    /\ sync_ticks = ResponsePolls

\* C26 as stated: whenever check_network_access returns True, the link status is Up
\* and the IP and DNS addresses are non-zero at that moment.
C26_TrueOnlyWhenLinkReady ==
    [][ (/\ check_pc' = "idle"
         /\ check_result' = "True"
         /\ (check_pc # "idle" \/ check_tasks' < check_tasks)) =>
            (wlan_status' = CYW43_LINK_UP /\ has_valid_network_config') ]_vars

\* Positions in log at which a connection attempt starts: connect_wifi begins with a
\* disconnect when the radio is associated and with the association otherwise.
AttemptStarts(log) ==
    { i \in DOMAIN log :
        \/ log[i] = "disconnect"
        \/ log[i] = "connect" /\ (i = 1 \/ log[i - 1] # "disconnect") }

\* How many of the first i entries of log are failed attempts.
ErrorsUpTo(log, i) == CountOf(SubSeq(log, 1, i), "error")

\* A check that left its retry loop with the retries used up and the link not ready
\* returned False.
ExhaustedReturnsFalse ==
    [][ (/\ check_pc # "idle"
         /\ check_pc' = "idle"
         /\ "badauth" \notin Range(check_log')
         /\ retries' > WIFI_CONNECT_RETRIES
         /\ ~(wlan_status' = CYW43_LINK_UP /\ has_valid_network_config')) =>
            check_result' = "False" ]_vars

\* C27 as stated: in a check without authentication failure at most
\* WIFI_CONNECT_RETRIES + 1 attempts are made, every attempt after the first comes
\* right after a backoff, no backoff is run after the last attempt (a check that has
\* ended did not end its work with a backoff), and a check that ends with the retries
\* used up and the link not ready returns False.
C27_NoBackoffAfterLastAttempt ==
    /\ []("badauth" \notin Range(check_log) =>
            /\ Cardinality(AttemptStarts(check_log)) <= WIFI_CONNECT_RETRIES + 1
            /\ \A i \in AttemptStarts(check_log) : i > 1 => check_log[i - 1] = "backoff"
            /\ (check_pc = "idle" /\ check_log # <<>>) =>
                   check_log[Len(check_log)] # "backoff")
    /\ ExhaustedReturnsFalse

\* C27, amended: in a check without authentication failure at most
\* WIFI_CONNECT_RETRIES + 1 attempts are made; every attempt after the first comes
\* right after a backoff; a backoff is run after each failed attempt that leaves
\* retries to make and after no other, so none follows the attempt that uses up the
\* retries, which is the last thing the check does; after a backoff the loop condition
\* is tested again, so a backoff is the last thing a check did when the link came up
\* during it; and a check that ends with the retries used up and the link not ready
\* returns False.
C27_BackoffAfterRetryableFailure ==
    /\ []("badauth" \notin Range(check_log) =>
            /\ Cardinality(AttemptStarts(check_log)) <= WIFI_CONNECT_RETRIES + 1
            /\ \A i \in AttemptStarts(check_log) : i > 1 => check_log[i - 1] = "backoff"
            /\ \A i \in DOMAIN check_log :
                   /\ check_log[i] = "backoff" =>
                          /\ check_log[i - 1] = "error"
                          /\ ErrorsUpTo(check_log, i) <= WIFI_CONNECT_RETRIES
                   /\ check_log[i] = "error" =>
                          IF ErrorsUpTo(check_log, i) <= WIFI_CONNECT_RETRIES
                          THEN i < Len(check_log) /\ check_log[i + 1] = "backoff"
                          ELSE i = Len(check_log) /\ check_pc = "idle"
            /\ (check_pc = "idle" /\ check_log # <<>>
                    /\ check_log[Len(check_log)] = "backoff") => check_result = "True")
    /\ ExhaustedReturnsFalse

\* C27 witness: a check made WIFI_CONNECT_RETRIES + 1 attempts with a backoff between
\* them and returned False.
C27_Witness ==
    /\ check_pc = "idle"
    /\ check_result = "False"
    /\ "badauth" \notin Range(check_log)
    /\ retries = WIFI_CONNECT_RETRIES + 1
    /\ Cardinality(AttemptStarts(check_log)) = WIFI_CONNECT_RETRIES + 1
    /\ CountOf(check_log, "backoff") = WIFI_CONNECT_RETRIES

\* ------------------------------------------------------------------ RTC codecs

\* Years of the civil times written to the RTC devices: the year register of the
\* DS3231 holds two decimal digits counted from 2000.
CodecYears == {2000, 2024, 2099}

\* Days of month m in year y.
DaysInMonth(y, m) ==
    IF m = 2 THEN (IF y % 4 = 0 /\ (y % 100 # 0 \/ y % 400 = 0) THEN 29 ELSE 28)
    ELSE IF m \in {4, 6, 9, 11} THEN 30 ELSE 31

\* Civil times written to an RTC device: every date of those years at one time of
\* day, and every second of one day.
CodecTimes ==
    { <<x[1], x[2], x[3], 21, 22, 23>> :
          x \in { z \in CodecYears \X (1..12) \X (1..31) : z[3] <= DaysInMonth(z[1], z[2]) } }
    \cup { <<2024, 1, 12, x[1], x[2], x[3]>> : x \in (0..23) \X (0..59) \X (0..59) }

\* What a direct call on a device class leaves alone.
CodecKeeps ==
    UNCHANGED <<constructed, time_sync_status, external_rtc_RTC, time_source,
                selected_time_source_name, on_time_sync, op_trace, netVars, wifiVars,
                syncObs, otherVars>>

\* DS3231.set_time(year, month, day, hours, minutes, seconds) on a fresh device.
DS3231_set(t) ==
    /\ op = "none"
    /\ ds3231_regs' = DS3231_set_time(t[1], t[2], t[3], t[4], t[5], t[6])
    /\ op' = "DS3231.set_time"
    /\ op_arg' = t
    /\ UNCHANGED <<mcu_rtc, op_result>>
    /\ CodecKeeps

\* DS3231.read_time() right after it.
DS3231_read ==
    /\ op = "DS3231.set_time"
    /\ op' = "DS3231.read_time"
    /\ op_result' = DS3231_read_time(ds3231_regs)
    /\ UNCHANGED <<mcu_rtc, ds3231_regs, op_arg>>
    /\ CodecKeeps

\* InternalRTC.set_time(year, month, day, hours, minutes, seconds) after boot.
InternalRTC_set(t) ==
    /\ op = "none"
    /\ mcu_rtc' = InternalRTC_set_time(t).mcu
    /\ op' = "InternalRTC.set_time"
    /\ op_arg' = t
    /\ UNCHANGED <<ds3231_regs, op_result>>
    /\ CodecKeeps

\* InternalRTC.get_time() right after it.
InternalRTC_get ==
    /\ op = "InternalRTC.set_time"
    /\ op' = "InternalRTC.get_time"
    /\ op_result' = InternalRTC_get_time.val
    /\ UNCHANGED <<mcu_rtc, ds3231_regs, op_arg>>
    /\ CodecKeeps

\* A time is written to one of the RTC devices and read back.
NextCodec ==
    \/ op = "none" /\ \E t \in CodecTimes : DS3231_set(t)
    \/ DS3231_read
    \/ op = "none" /\ \E t \in CodecTimes : InternalRTC_set(t)
    \/ InternalRTC_get

\* ------------------------------------------------------------------ claims C28-C29

C29_InternalRTCRoundTrip == op = "InternalRTC.get_time" => op_result = op_arg

\* ------------------------------------------------------------------ claims C30

\* C30 as stated: the text of a status write is the name of the source whose flag is
\* set, and "NONE" exactly when no flag of the table is set; and a redraw goes on to
\* the status write only when the second at which its time was read from the selected
\* device is a multiple of 5.
C30_StatusOnFifthSecond ==
    /\ [](last_act.kind = "status_write" =>
            /\ last_act.text = "NONE" <=> (\A i \in 1..4 : ~time_sync_status[i].status)
            /\ last_act.text # "NONE" =>
                   \E i \in 1..4 : /\ time_sync_status[i].status
                                   /\ time_sync_status[i].name = last_act.text)
    /\ [][ \A t \in Threads :
               (/\ loop_pc[t] = "read"
                /\ loop_pc'[t] = "lock"
                /\ loop_now'[t][6] % 5 = 0) =>
                   (IF time_source' = "rtc" THEN mcu_rtc[7]
                    ELSE DS3231_read_time(ds3231_regs)[6]) % 5 = 0 ]_vars

\* ------------------------------------------------------------------ claims C31

\* C31 as stated: once an operation that changes a status flag has completed (no
\* checker iteration and no get_time in progress), the selected source is the one the
\* selection algorithm gives for the current table.
C31_SelectionFollowsTable ==
    (constructed /\ get_pc = "idle" /\ chk_pc = "idle") =>
        /\ time_source = update_time_source(time_sync_status, is_configured).source
        /\ selected_time_source_name = update_time_source(time_sync_status, is_configured).name

\* ------------------------------------------------------------------ status checker

\* What wlan.status() and wlan.ifconfig() show while the checker is followed.
StatusRadioStates ==
    { [status |-> CYW43_LINK_UP, ip |-> "192.168.1.2", dns |-> "192.168.1.1"],
      [status |-> CYW43_LINK_DOWN, ip |-> "0.0.0.0", dns |-> "0.0.0.0"] }

\* Variant of the checker iteration that copies the NTP flag only.
TimeSource_async_check_time_sync_status_ntp_only ==
    /\ constructed
    /\ \E table \in {set_time_sync_status(time_sync_status, "NTP", ntp_sync_status)} :
           /\ time_sync_status' = table
           /\ select_time_source(update_time_source(table, is_configured))
    /\ op' = "async_check_time_sync_status"
    /\ op_arg' = <<ntp_sync_status, prtc_sync_status>>
    /\ op_trace' = <<EvUpdate>>
    /\ op_result' = "none"
    /\ UNCHANGED <<constructed, external_rtc_RTC, on_time_sync, mcu_rtc, ds3231_regs>>

\* One iteration of TimeSource.async_check_time_sync_status, from the top of the loop
\* to its await: the client's NTP and PRTC flags are copied into the table, then
\* update_time_source() runs. The client runs on the same event loop, so it takes no
\* step inside the iteration.
TimeSource_async_check_time_sync_status ==
    /\ constructed
    /\ \E table \in {set_time_sync_status(
                           set_time_sync_status(time_sync_status, "NTP", ntp_sync_status),
                           "PRTC", prtc_sync_status)} :
           /\ time_sync_status' = table
           /\ select_time_source(update_time_source(table, is_configured))
    /\ op' = "async_check_time_sync_status"
    /\ op_arg' = <<ntp_sync_status, prtc_sync_status>>
    /\ op_trace' = <<EvUpdate>>
    /\ op_result' = "none"
    /\ UNCHANGED <<constructed, external_rtc_RTC, on_time_sync, mcu_rtc, ds3231_regs>>

\* The arbiter with its time client: construction, the sync attempts with the
\* callback, the periodic checker, and the reads and writes of the time.
NextStatus ==
    \/ \E found \in BOOLEAN, fault \in {"none", "write"} :
           TimeSource_init(found, fault) /\ UNCHANGED <<netVars, wifiVars, syncObs, otherVars>>
    \/ \E r \in StatusRadioStates :
           RadioChange(r.status, r.ip, r.dns) /\ UNCHANGED <<wifiVars, syncObs, otherVars>>
    \/ SyncNoNetwork /\ SyncObsCleared /\ UNCHANGED <<wifiVars, otherVars>>
    \/ SyncStart /\ DnsWithin /\ SyncObsCleared /\ UNCHANGED <<wifiVars, otherVars>>
    \/ SyncServerFails /\ DnsWithin /\ UNCHANGED <<wifiVars, syncObs, otherVars>>
    \/ \E reply \in CoreReplies, fault \in BOOLEAN :
           SyncResponse(reply, fault) /\ UNCHANGED <<wifiVars, otherVars>>
    \/ TimeSource_async_check_time_sync_status
           /\ UNCHANGED <<netVars, wifiVars, syncObs, otherVars>>
    \/ \E f1 \in BOOLEAN, f2 \in BOOLEAN :
           TimeSource_get_time(f1, f2) /\ UNCHANGED <<netVars, wifiVars, syncObs, otherVars>>
    \/ \E f1 \in BOOLEAN, f2 \in BOOLEAN :
           TimeSource_set_time(<<2024, 1, 12, 21, 22, 23>>, f1, f2)
               /\ UNCHANGED <<netVars, wifiVars, syncObs, otherVars>>

\* ------------------------------------------------------------------ claims C32

\* A step that is an iteration of the checker: it ends with the checker as the last
\* operation and leaves the client as it was.
CheckerRan == op' = "async_check_time_sync_status" /\ UNCHANGED <<netVars, syncObs>>

\* The arbiter's NTP and PRTC flags equal the client's sync statuses.
Mirrored == Flag("NTP") = ntp_sync_status /\ Flag("PRTC") = prtc_sync_status

\* C32: after every iteration of the checker the arbiter's NTP flag equals the
\* client's NTP sync status, its PRTC flag equals the client's PRTC sync status, and
\* the selection has been re-run on that table, also when no flag changed; and a
\* change of a client flag reaches the arbiter's flag.
C32_CheckerMirrorsClient ==
    /\ [][ CheckerRan =>
               /\ Flag("NTP")' = ntp_sync_status'
               /\ Flag("PRTC")' = prtc_sync_status'
               /\ op_trace' = <<EvUpdate>>
               /\ time_source' = update_time_source(time_sync_status', is_configured').source
               /\ selected_time_source_name'
                      = update_time_source(time_sync_status', is_configured').name ]_vars
    /\ ~Mirrored ~> Mirrored

\* C32 witness: an iteration has copied a true PRTC status and a false NTP status of
\* the client and re-selected the internal RTC although an external RTC is configured.
C32_Witness ==
    /\ op = "async_check_time_sync_status"
    /\ prtc_sync_status /\ Flag("PRTC")
    /\ ~ntp_sync_status /\ ~Flag("NTP")
    /\ is_configured
    /\ time_source = "rtc"

\* ------------------------------------------------------------------ claims C33

\* C33 as stated: on_ntp_sync never raises; with an external RTC present it writes the
\* first six fields of the timestamp to the external RTC and sets the RTC flag true
\* when the write succeeds, false when it fails.
C33_CallbackSetsRtcFlag ==
    (op = "on_ntp_sync" /\ is_configured) =>
        /\ op_result = "none"
        /\ Len(op_trace) = 1 /\ op_trace[1].ev = "write"
        /\ IF op_trace[1].fault
           THEN ~Flag("RTC")
           ELSE /\ Flag("RTC")
                /\ DS3231_read_time(ds3231_regs) = SubSeq(op_arg, 1, 6)

\* ------------------------------------------------------------------ claims C34

\* C34 as stated: the last-rendered value is recorded after the displays were written
\* and the lock released, so while a thread has still to take the lock or is writing
\* the displays for a value, or has left the write by an exception, that value is not
\* the recorded one.
C34_RecordedAfterPush ==
    \A t \in Threads :
        (loop_pc[t] \in {"lock", "write"} \/ loop_raised[t] = "write") =>
            last_time # loop_now[t]

\* ------------------------------------------------------------------ claims C35

\* The server list is what one DNS answer resolves to.
ResolvedFrom(servers) ==
    \E dns \in DnsAnswers : ~dns.raise /\ servers = ResolvedServers(dns.addrinfo, <<>>)

\* C35: an empty pool has rotation index 0 and no address; a non-empty pool is the
\* list of one resolution, its index is in range and the current address is the server
\* at the index with the configured port; the list changes only by being replaced with
\* a non-empty resolved list, which resets the index to 0; a pool once resolved is
\* never empty again.
C35_PoolConsistent ==
    /\ [](IF ntp_servers = <<>>
          THEN ntp_server_index = 0 /\ ntp_address = <<>>
          ELSE /\ ResolvedFrom(ntp_servers)
               /\ ntp_server_index \in 0..(Len(ntp_servers) - 1)
               /\ ntp_address = <<ntp_servers[ntp_server_index + 1], ntp_port>>)
    /\ [][ ntp_servers' # ntp_servers =>
               /\ ntp_servers' # <<>>
               /\ ntp_server_index' = 0
               /\ ntp_address' = <<ntp_servers'[1], ntp_port>>
               /\ sync_log' # <<>>
               /\ \E i \in DOMAIN sync_log' :
                      /\ sync_log'[i].ev = "refresh" /\ sync_log'[i].result
                      /\ sync_log'[i].after.servers = ntp_servers' ]_vars

\* C35 witness: a pool of three servers with the rotation at its last server was
\* replaced by a pool of two, and the index is 0 again.
C35_Witness ==
    /\ Len(ntp_servers) = 2
    /\ ntp_server_index = 0
    /\ \E i \in DOMAIN sync_log :
           /\ sync_log[i].ev = "refresh" /\ sync_log[i].result
           /\ Len(sync_log[i].before.servers) = 3
           /\ sync_log[i].before.index = 2

\* ------------------------------------------------------------------ network monitor

\* Most async_sync_rtc_from_ntp tasks created and not yet started.
MaxSyncTasks == 2

\* Seconds that pass on machine.RTC while the monitor is followed: more than the
\* effective interval.
MonitorClockStep == 61

\* What wlan.status() and wlan.ifconfig() show while the monitor is followed: the
\* link up with a lease, and associated without one.
MonitorRadioStates ==
    { [status |-> CYW43_LINK_UP, ip |-> "192.168.1.2", dns |-> "192.168.1.1"],
      [status |-> CYW43_LINK_NOIP, ip |-> "0.0.0.0", dns |-> "0.0.0.0"] }

\* WirelessNetwork.check_ntp_sync_needed(): never synced, or the clock reading exceeds
\* the last-synced timestamp by more than the interval.
check_ntp_sync_needed ==
    IF ntp_last_synced_timestamp = 0 THEN TRUE
    ELSE (time(mcu_rtc) - ntp_last_synced_timestamp) > NTP_SYNC_INTERVAL_SECONDS

\* network_monitor: status != CYW43_LINK_UP or not config_valid
network_not_ready == wlan_status # CYW43_LINK_UP \/ ~has_valid_network_config

\* Variant of sync_wanted in which the monitor schedules a sync only with the link ready.
sync_wanted_when_ready == check_ntp_sync_needed /\ ~ntp_sync_in_progress /\ ~network_not_ready

\* network_monitor, the second test of an iteration: a sync is due and none is in
\* progress.
sync_wanted == check_ntp_sync_needed /\ ~ntp_sync_in_progress

\* network_monitor, the first test of an iteration: the network is not ready and no
\* check is in progress.
check_wanted == network_not_ready /\ ~network_check_in_progress

\* One iteration of network_monitor, from the top of the loop to await sleep(5): it
\* creates a check_network_access task when one is wanted and an
\* async_sync_rtc_from_ntp task when one is wanted.
NetworkMonitorPoll ==
    /\ constructed
    /\ IF check_wanted
       THEN check_tasks < MaxCheckTasks /\ create_check_task
       ELSE UNCHANGED check_tasks
    /\ IF sync_wanted
       THEN sync_tasks < MaxSyncTasks /\ sync_tasks' = sync_tasks + 1
       ELSE UNCHANGED sync_tasks
    /\ monitor_polls' = (monitor_polls + 1) % 2
    /\ UNCHANGED <<arbVars, wlan_status, wlan_ifconfig, ntp_servers, ntp_server_index,
                   ntp_address, ntp_sync_in_progress, ntp_sync_status, prtc_sync_status,
                   ntp_last_synced_timestamp, network_check_in_progress, sync_pc, sync_pass,
                   sync_attempt, sync_log, sync_result, sticky, wifiVars, syncObs,
                   dueVars, coreVars, raceVars, waitVars, startVars>>

\* A created async_sync_rtc_from_ntp task starts running.
SyncTaskStarts ==
    /\ sync_tasks > 0
    /\ sync_tasks' = sync_tasks - 1
    /\ UNCHANGED <<wifiVars, dueVars, coreVars, raceVars, waitVars, monitor_polls, startVars>>

\* The monitor with the tasks it creates: the check task, the sync task, the radio and
\* the clock.
NextMonitor ==
    \/ TimeSource_init(FALSE, "none") /\ UNCHANGED <<netVars, wifiVars, syncObs, otherVars>>
    \/ \E r \in MonitorRadioStates :
           RadioChange(r.status, r.ip, r.dns) /\ UNCHANGED <<wifiVars, syncObs, otherVars>>
    \/ ntp_last_synced_timestamp # 0 /\ RtcTick(MonitorClockStep)
    \/ NetworkMonitorPoll
    \/ CheckStart /\ UNCHANGED <<syncObs, otherVars>>
    \/ CheckSkipped /\ UNCHANGED <<syncObs, otherVars>>
    \/ DiscTick /\ UNCHANGED <<syncObs, otherVars>>
    \/ AssocTick /\ UNCHANGED <<syncObs, otherVars>>
    \/ DhcpTick /\ UNCHANGED <<syncObs, otherVars>>
    \/ FlashFailed /\ UNCHANGED <<syncObs, otherVars>>
    \/ \E dns \in WaitDnsAnswers : FlashSucceeded(dns) /\ UNCHANGED <<syncObs, otherVars>>
    \/ BackoffDone /\ UNCHANGED <<syncObs, otherVars>>
    \/ SyncTaskStarts /\ SyncRejected /\ UNCHANGED syncObs
    \/ SyncTaskStarts /\ SyncNoNetwork /\ SyncObsCleared
    \/ SyncTaskStarts /\ SyncStart /\ DnsWithin /\ SyncObsCleared
    \/ \E reply \in CoreReplies :
           SyncResponse(reply, FALSE) /\ UNCHANGED <<wifiVars, otherVars>>

\* ------------------------------------------------------------------ claims C36

\* C36: an iteration of network_monitor that finds the network not ready and no check
\* in progress creates a check task, and one that finds a sync due and no sync in
\* progress creates a sync task; each guard is set exactly while its operation runs,
\* and a check or sync task that starts while its guard is set ends without touching
\* the running one, so no two checks and no two syncs are active together.
C36_MonitorSchedules ==
    /\ [][ monitor_polls' # monitor_polls =>
               /\ (network_not_ready /\ ~network_check_in_progress
                       => check_tasks' = check_tasks + 1)
               /\ (check_ntp_sync_needed /\ ~ntp_sync_in_progress
                       => sync_tasks' = sync_tasks + 1) ]_vars
    /\ [](network_check_in_progress <=> check_pc # "idle")
    /\ [](ntp_sync_in_progress <=> sync_pc = "wait")
    /\ [][ (check_tasks' < check_tasks /\ network_check_in_progress) =>
               UNCHANGED <<network_check_in_progress, check_pc, check_ticks, retries,
                           check_log>> ]_vars
    /\ [][ (sync_tasks' < sync_tasks /\ ntp_sync_in_progress) =>
               UNCHANGED <<ntp_sync_in_progress, sync_pc, sync_pass, sync_attempt,
                           sync_log>> ]_vars

\* C36 witness: a sync task found the link down and created a check task, the monitor
\* created another, one of the two runs and the other has ended at the guard.
C36_Witness ==
    /\ sync_result = "False" /\ sync_log = <<>>
    /\ network_check_in_progress /\ check_pc # "idle"
    /\ skip_result = "False"
    /\ check_tasks = 0
    /\ ntp_last_synced_timestamp = 0

\* ------------------------------------------------------------------ claims C37

\* The refresh-loop threads that have not returned.
LoopThreads == {t \in Threads : loop_pc[t] # "none"}

C38_ExternalOnlyWhenPresent ==
    /\ Flag("RTC") => external_rtc_RTC # "None"
    /\ time_source = "external_rtc" => external_rtc_RTC # "None"
    /\ (constructed /\ external_rtc_RTC = "None") =>
           time_source = "rtc" /\ selected_time_source_name = "PRTC"

\* C38 witness: an arbiter without an external RTC, after a sync succeeded and the
\* checker copied the PRTC flag, has written the time through set_time and has the
\* internal RTC selected.
C38_Witness ==
    /\ constructed
    /\ external_rtc_RTC = "None"
    /\ prtc_sync_status /\ Flag("PRTC")
    /\ op = "set_time"
    /\ time_source = "rtc"

\* ------------------------------------------------------------------ guards

\* States of the radio while the guards are followed: associated with a lease,
\* associated without one, and the access point refusing the credentials.
GuardRadioStates ==
    { [status |-> CYW43_LINK_UP, ip |-> "192.168.1.2", dns |-> "192.168.1.1"],
      [status |-> CYW43_LINK_NOIP, ip |-> "0.0.0.0", dns |-> "0.0.0.0"],
      [status |-> CYW43_LINK_BADAUTH, ip |-> "0.0.0.0", dns |-> "0.0.0.0"] }

\* A call of check_network_access that finds the guard set.
CheckRejectedCall == CheckSkipped /\ UNCHANGED <<syncObs, otherVars>>

\* A call of async_sync_rtc_from_ntp that finds the guard set.
SyncRejectedCall == SyncRejected /\ UNCHANGED <<wifiVars, syncObs, otherVars>>

\* The answer of getaddrinfo() while the guards are followed: two hosts.
GuardDnsAnswers == { [raise |-> FALSE, addrinfo |-> <<"ip2", "ip1">>] }

\* The DNS refreshes of the sync task got that answer.
DnsAnswered ==
    \A i \in DOMAIN sync_log' :
        sync_log'[i].ev = "refresh" => sync_log'[i].dns \in GuardDnsAnswers

\* The deadline of a response wait passes.
SyncGivesUp == SyncServerFails /\ DnsAnswered /\ UNCHANGED <<wifiVars, syncObs, otherVars>>

\* The link manager and the time client with every way their guarded operations end:
\* a check returns True or False or raises the authentication error, a sync returns
\* True or False or catches an exception; calls arrive while a body runs and after.
NextGuards ==
    \/ TimeSource_init(FALSE, "none") /\ UNCHANGED <<netVars, wifiVars, syncObs, otherVars>>
    \/ \E r \in GuardRadioStates :
           RadioChange(r.status, r.ip, r.dns) /\ UNCHANGED <<wifiVars, syncObs, otherVars>>
    \/ CheckStart /\ UNCHANGED <<syncObs, otherVars>>
    \/ CheckRejectedCall
    \/ DiscTick /\ UNCHANGED <<syncObs, otherVars>>
    \/ AssocTick /\ UNCHANGED <<syncObs, otherVars>>
    \/ DhcpTick /\ UNCHANGED <<syncObs, otherVars>>
    \/ FlashFailed /\ UNCHANGED <<syncObs, otherVars>>
    \/ \E dns \in GuardDnsAnswers : FlashSucceeded(dns) /\ UNCHANGED <<syncObs, otherVars>>
    \/ BackoffDone /\ UNCHANGED <<syncObs, otherVars>>
    \/ SyncRejectedCall
    \/ SyncNoNetwork /\ SyncObsCleared /\ UNCHANGED <<wifiVars, otherVars>>
    \/ SyncStart /\ DnsAnswered /\ SyncObsCleared /\ UNCHANGED <<wifiVars, otherVars>>
    \/ SyncGivesUp
    \/ SyncRaises /\ UNCHANGED <<wifiVars, otherVars>>
    \/ \E reply \in CoreReplies :
           SyncResponse(reply, FALSE) /\ UNCHANGED <<wifiVars, otherVars>>

\* ------------------------------------------------------------------ claims C39

\* C39: each guard flag is true only while a body of its operation executes: with no
\* check body running network_check_in_progress is false and with no sync body
\* running ntp_sync_in_progress is false, however the last body ended (True, False,
\* the authentication error raised, an exception caught). So a call that arrives with
\* no body running cannot be rejected: no guard stays set once its operation ended.
C39_GuardsFollowBodies ==
    /\ network_check_in_progress => check_pc # "idle"
    /\ ntp_sync_in_progress => sync_pc = "wait"
    /\ check_pc = "idle" => ~ENABLED CheckRejectedCall
    /\ sync_pc = "idle" => ~ENABLED SyncRejectedCall

\* C39 witness: a check ended by raising the authentication error and a later call was
\* admitted and waits for the association; a sync ended in its except clause and its
\* guard is clear.
C39_Witness ==
    /\ assoc_after_badauth
    /\ check_log = <<"connect">>
    /\ check_pc = "assoc_wait"
    /\ network_check_in_progress
    /\ sync_pc = "idle"
    /\ sync_log # <<>>
    /\ sync_log[Len(sync_log)].ev = "raise"
    /\ sync_result = "False"
    /\ ~ntp_sync_in_progress

\* ------------------------------------------------------------------ failed syncs

\* The time client with the clock running on: sync attempts that succeed and that fail
\* in every way (no network, a resolution that fails, the pool exhausted in either
\* pass, an exception), with the arbiter's callback registered or not, before and
\* after the resync interval has passed.
NextFail ==
    \/ \E found \in BOOLEAN :
           TimeSource_init(found, "none") /\ UNCHANGED <<netVars, wifiVars, syncObs, otherVars>>
    \/ \E r \in StatusRadioStates :
           RadioChange(r.status, r.ip, r.dns) /\ UNCHANGED <<wifiVars, syncObs, otherVars>>
    \/ ntp_last_synced_timestamp # 0 /\ RtcTick(MonitorClockStep)
    \/ SyncNoNetwork /\ SyncObsCleared /\ UNCHANGED <<wifiVars, otherVars>>
    \/ SyncStart /\ DnsWithin /\ SyncObsCleared /\ UNCHANGED <<wifiVars, otherVars>>
    \/ SyncServerFails /\ DnsWithin /\ UNCHANGED <<wifiVars, syncObs, otherVars>>
    \/ SyncRaises /\ UNCHANGED <<wifiVars, otherVars>>
    \/ \E reply \in CoreReplies, fault \in BOOLEAN :
           SyncResponse(reply, fault) /\ UNCHANGED <<wifiVars, otherVars>>

\* ------------------------------------------------------------------ claims C40

\* A step in which an admitted sync attempt ends without a time: it was waiting for a
\* response and gives up, or it starts and fails before its first wait.
SyncAttemptFails ==
    /\ sync_result' = "False"
    /\ sync_pc' = "idle"
    /\ \/ sync_pc = "wait"
       \/ /\ sync_pc = "idle"
          /\ \/ sync_result # "False"
             \/ sync_log' # sync_log
             \/ check_tasks' # check_tasks
             \/ ntp_sync_status' # ntp_sync_status

Init == InitArbiter /\ InitNetwork /\ InitDue(60) /\ InitCore /\ InitRace /\ InitMonitor

Next == NextArbiter /\ UNCHANGED <<netVars, wifiVars, syncObs, otherVars>>

Spec == Init /\ [][Next]_vars

SpecNtp == Init /\ [][NextNtp]_vars

SpecWifi == Init /\ [][NextWifi]_vars

SpecDue == InitSchedule /\ [][NextDue]_vars

SpecCore == Init /\ [][NextCore]_vars

SpecRace == Init /\ [][NextRace]_vars

SpecLoop == Init /\ [][NextLoop]_vars

SpecCodec == Init /\ [][NextCodec]_vars

SpecStatus == Init /\ [][NextStatus]_vars

SpecMonitor == Init /\ [][NextMonitor]_vars

SpecStart == Init /\ [][NextStart]_vars

\* The checker's sleep ends: an iteration that can run is not postponed for ever.
SpecStatusLive ==
    /\ Init
    /\ [][NextStatus]_vars
    /\ WF_vars(TimeSource_async_check_time_sync_status
                   /\ UNCHANGED <<netVars, wifiVars, syncObs, otherVars>>)

\* A step of loop thread t other than an exception.
LoopStep(t) ==
    \/ ClockLoopBegin(t)
    \/ ClockLoopTop(t)
    \/ ClockLoopPaused(t)
    \/ \E fault1 \in BOOLEAN : ClockLoopRead(t, fault1, FALSE)
    \/ UpdateAcquire(t)
    \/ \E outcome \in {"ok", "fails", "escapes"} : UpdateStep(t, outcome)
    \/ UpdateRelease(t)
    \/ StatusAcquire(t)
    \/ StatusWrite(t)
    \/ ClockLoopSleep(t)
    \/ ClockLoopBackoff(t)

\* The scheduler runs a task that can go on and the sleeps of the waits end.
SpecWaits ==
    /\ Init
    /\ [][NextWaits]_vars
    /\ WF_vars(CheckTaskStep /\ UNCHANGED <<syncObs, otherVars>>)
    /\ WF_vars(SyncPoll \/ (SyncTimeout /\ DnsWithin
                                /\ UNCHANGED <<wifiVars, syncObs, dueVars, coreVars, raceVars, monVars, startVars>>))

SpecFail == Init /\ [][NextFail]_vars

SpecGuards == Init /\ [][NextGuards]_vars

\* The refresh loop runs on its own core: a thread that can take a step takes one.
SpecLoopLive ==
    /\ Init
    /\ [][NextLoop]_vars
    /\ \A t \in Threads : WF_vars(LoopStep(t))

\* The refresh loop runs on its own core: its pause check and the end of its pause
\* sleep are not postponed for ever.
SpecCoreLive ==
    /\ Init
    /\ [][NextCore]_vars
    /\ \A t \in Threads : WF_vars(ClockLoopTop(t)) /\ WF_vars(ClockLoopPaused(t))

====
